---------------------------- MODULE Spec2Model ----------------------------
(***************************************************************************)
(* State-machine model of the aggressive momentum strategy                 *)
(* (aggressive_momentum_strategy.py) running against the exchange client   *)
(* (exchange.py).                                                          *)
(*                                                                         *)
(* Units.  Floats of the program are fixed-point integers here:            *)
(*   money            cents                                                *)
(*   price            whole dollars                                        *)
(*   coin amount      hundredths of a coin (the exchange's precision step) *)
(*   percentages      basis points (1% = 100)                              *)
(*   score            tenths of a point                                    *)
(*   atr              tenths of a dollar                                   *)
(*   time             hours                                                *)
(* so amount * price is a value in cents.                                  *)
(*                                                                         *)
(* Specifications.                                                         *)
(*   Spec          the cycles of run_once over every setup, with the       *)
(*                 exchange failures that run_once catches                 *)
(*   LoopSpec      run_strategy_loop around run_once: the exchange calls   *)
(*                 that raise out of run_once, the stop signal, the end of *)
(*                 the loop; one setup, weak fairness on the loop's steps  *)
(*   SnapshotSpec  the cycles of run_once on an equity file at the cap of  *)
(*                 save_equity_snapshot                                    *)
(*   RsiSpec       the cycles of RSIMeanReversionStrategy.run_once         *)
(*                 (strategy.py)                                           *)
(*   StrategiesSpec  either strategy: Spec or RsiSpec                      *)
(*   SellSpec      should_sell evaluated again and again on one position   *)
(*   SizeSpec      calculate_position_size applied once to drawn inputs    *)
(*   OrdersSpec    Spec, or execute_sell and execute_buy called on their   *)
(*                 own with drawn quantities                               *)
(*   CorrelationSpec  the cycles of run_once in markets with correlated    *)
(*                 price series                                            *)
(*   RiskSpec      RiskManager.assess_risk_level, the position multiplier  *)
(*                 and should_stop_trading applied once to a drawn history *)
(***************************************************************************)
EXTENDS Integers, Sequences, FiniteSets, TLC

(***************************************************************************)
(* Strategy parameters (aggressive_momentum_strategy.py:58-129)            *)
(***************************************************************************)
RSI_BUY_THRESHOLD == 45
RSI_SELL_THRESHOLD == 70
RSI_STRONG_BUY == 35
RSI_OVERSOLD == 30
ATR_STOP_MULTIPLIER == 2
MAX_SINGLE_POSITION_PCT == 30
MAX_TOTAL_POSITION_PCT == 65
MIN_TRADE_USDT == 600
BASE_POSITION_PCT == 20
VOLATILITY_TARGET == 2
HARD_STOP_LOSS_PCT == 350
MIN_TAKE_PROFIT_PCT == 200
AGGRESSIVE_TAKE_PROFIT_PCT == 1200
DAILY_LOSS_LIMIT_PCT == 500
MAX_DRAWDOWN_PCT == 1200
VOLUME_BREAKOUT_BONUS == 100
ROTATION_INTERVAL_HOURS == 6
MIN_ROTATION_IMPROVEMENT == 30
STALE_POSITION_HOURS == 48
STALE_POSITION_MIN_LOSS == -100
MAX_CORRELATION == 85

\* TRAILING_STOP_ATR_MULT = 1.5 as a fraction, with the 3% cap of line 853
TRAILING_STOP_ATR_MULT == <<3, 2>>
TRAILING_CAP == 300

\* the ladder listed from its highest level down
DescendingLevels ==
    << [level |-> 800, portion |-> 50],
       [level |-> 500, portion |-> 35],
       [level |-> 300, portion |-> 30] >>

\* (level in basis points, portion in percent), in list order
PARTIAL_PROFIT_LEVELS ==
    << [level |-> 300, portion |-> 30],
       [level |-> 500, portion |-> 35],
       [level |-> 800, portion |-> 50] >>

\* the default minimum order cost of get_min_order_usdt, in cents
MIN_ORDER_USDT == 500

(***************************************************************************)
(* Bounds of the model                                                     *)
(***************************************************************************)
\* cycles of run_once in one behaviour
MaxCycles == 3
\* exchange calls that may fail in one behaviour
MaxFailures == 1
\* the exchange's minimum order quantity (market limits), hundredths of a coin
MinOrderAmount == 10
\* should_sell evaluations of one position in one behaviour
MaxEvaluations == 4

(***************************************************************************)
(* Generic helpers                                                         *)
(***************************************************************************)
\* Python's None, where a symbol or a name is expected / where a number is
None == "None"
NoValue == 0 - 1

Min(a, b) == IF a <= b THEN a ELSE b
Max(a, b) == IF a >= b THEN a ELSE b

\* Python dicts are functions whose domain is the key set
Put(d, k, v) == [x \in (DOMAIN d) \cup {k} |-> IF x = k THEN v ELSE d[x]]
Del(d, k) == [x \in (DOMAIN d) \ {k} |-> d[x]]
EmptyDict == [x \in {} |-> 0]

Range(s) == {s[i] : i \in 1..Len(s)}

SeqMax(s) == CHOOSE m \in Range(s) : \A x \in Range(s) : x <= m

RECURSIVE SeqSum(_)
SeqSum(s) == IF s = <<>> THEN 0 ELSE s[1] + SeqSum(Tail(s))

(***************************************************************************)
(* exchange.py: whitelist and symbols                                      *)
(***************************************************************************)
\* WHITELIST_SYMBOLS, cut to its first three entries
WHITELIST_SYMBOLS == <<"BTC/USDT", "SOL/USDT", "XRP/USDT">>
Symbols == Range(WHITELIST_SYMBOLS)

\* symbol.split('/')[0]
Currency(symbol) ==
    CASE symbol = "BTC/USDT" -> "BTC"
      [] symbol = "SOL/USDT" -> "SOL"
      [] symbol = "XRP/USDT" -> "XRP"


(***************************************************************************)
(* Indicator bundles.  The indicator mathematics (indicators.py) is an     *)
(* external collaborator; get_market_data draws its result from these      *)
(* bundles.  momentum_* in tenths of a percent, macd_signal in halves      *)
(* (1 -> 2, 0.5 -> 1), volume_ratio and divergence_strength in tenths,     *)
(* closes names the 1h close series kept for the correlation filter.       *)
(***************************************************************************)
IndicatorNames == {"STRONG", "GOOD", "MID", "WEAK", "TOPPY"}

Indicators(name) ==
    CASE name = "STRONG" ->
           [momentum_short |-> 50, momentum_accel |-> 10, momentum_score |-> 80,
            rsi_1h |-> 40, rsi_15m |-> 45, macd_signal |-> 2,
            trend_1h |-> "UP", trend_4h |-> "UP", overall_trend |-> "UP",
            volume_ratio |-> 20, is_volume_breakout |-> TRUE, adx |-> 35,
            atr |-> 10, obv_trend |-> "UP", divergence_type |-> "NONE",
            divergence_strength |-> 0, is_pullback |-> TRUE, closes |-> "rising"]
      [] name = "GOOD" ->
           [momentum_short |-> 20, momentum_accel |-> 2, momentum_score |-> 30,
            rsi_1h |-> 50, rsi_15m |-> 48, macd_signal |-> 1,
            trend_1h |-> "UP", trend_4h |-> "UP", overall_trend |-> "UP",
            volume_ratio |-> 12, is_volume_breakout |-> FALSE, adx |-> 27,
            atr |-> 30, obv_trend |-> "NEUTRAL", divergence_type |-> "BULLISH",
            divergence_strength |-> 4, is_pullback |-> FALSE, closes |-> "rising2"]
      [] name = "MID" ->
           [momentum_short |-> 5, momentum_accel |-> 0, momentum_score |-> 10,
            rsi_1h |-> 55, rsi_15m |-> 50, macd_signal |-> 1,
            trend_1h |-> "UP", trend_4h |-> "DOWN", overall_trend |-> "UP",
            volume_ratio |-> 10, is_volume_breakout |-> FALSE, adx |-> 20,
            atr |-> 10, obv_trend |-> "NEUTRAL", divergence_type |-> "NONE",
            divergence_strength |-> 0, is_pullback |-> FALSE, closes |-> "flat"]
      [] name = "WEAK" ->
           [momentum_short |-> -35, momentum_accel |-> -10, momentum_score |-> -20,
            rsi_1h |-> 60, rsi_15m |-> 55, macd_signal |-> -2,
            trend_1h |-> "DOWN", trend_4h |-> "DOWN", overall_trend |-> "DOWN",
            volume_ratio |-> 8, is_volume_breakout |-> FALSE, adx |-> 12,
            atr |-> 30, obv_trend |-> "DOWN", divergence_type |-> "BEARISH",
            divergence_strength |-> 7, is_pullback |-> FALSE, closes |-> "falling"]
      [] name = "TOPPY" ->
           [momentum_short |-> 30, momentum_accel |-> 6, momentum_score |-> 40,
            rsi_1h |-> 82, rsi_15m |-> 80, macd_signal |-> 1,
            trend_1h |-> "UP", trend_4h |-> "UP", overall_trend |-> "UP",
            volume_ratio |-> 16, is_volume_breakout |-> FALSE, adx |-> 32,
            atr |-> 10, obv_trend |-> "DOWN", divergence_type |-> "NONE",
            divergence_strength |-> 0, is_pullback |-> FALSE, closes |-> "rising"]

\* abs(calculate_correlation(a, b)) of two stored close series, in percent
Correlation(a, b) ==
    IF a = b THEN 100
    ELSE IF {a, b} = {"rising", "rising2"} THEN 90
    ELSE IF {a, b} = {"rising", "flat"} THEN 40
    ELSE 10

(***************************************************************************)
(* calculate_coin_score (lines 611-692), in tenths of a point              *)
(***************************************************************************)
\* a score that leaves the three trend terms (lines 646-652) out
ScoreWithoutTrend(data) == 3 * data.momentum_score + data.macd_signal * 60

calculate_coin_score(data) ==
    LET rsi == data.rsi_1h
        momentum == 3 * data.momentum_score
        accel == IF data.momentum_accel > 5 THEN 50 ELSE 0
        rsi_base == IF RSI_OVERSOLD < rsi /\ rsi < RSI_STRONG_BUY THEN 200
                    ELSE IF rsi < RSI_BUY_THRESHOLD THEN 150
                    ELSE IF rsi > RSI_SELL_THRESHOLD THEN -100
                    ELSE 50
        rsi_bonus == IF data.rsi_15m > data.rsi_1h /\ rsi < RSI_BUY_THRESHOLD
                     THEN 50 ELSE 0
        macd == data.macd_signal * 60
        trend == (IF data.trend_1h = "UP" THEN 50 ELSE 0)
                 + (IF data.trend_4h = "UP" THEN 50 ELSE 0)
                 + (IF data.overall_trend = "UP" THEN 50 ELSE 0)
        volume == IF data.is_volume_breakout THEN VOLUME_BREAKOUT_BONUS
                  ELSE IF data.volume_ratio > 15 THEN 70
                  ELSE IF data.volume_ratio > 10 THEN 30
                  ELSE 0
        adx == IF data.adx > 30 THEN 50
               ELSE IF data.adx > 25 THEN 30
               ELSE IF data.adx < 15 THEN -30
               ELSE 0
        obv == IF data.obv_trend = "UP" /\ data.overall_trend = "UP" THEN 50
               ELSE IF data.obv_trend = "DOWN" /\ data.overall_trend = "UP" THEN -30
               ELSE 0
        divergence == IF data.divergence_type = "BULLISH"
                      THEN 5 * data.divergence_strength
                      ELSE IF data.divergence_type = "BEARISH"
                      THEN -(5 * data.divergence_strength)
                      ELSE 0
        pullback == IF data.is_pullback THEN 50 ELSE 0
    IN  momentum + accel + rsi_base + rsi_bonus + macd + trend + volume
        + adx + obv + divergence + pullback

(***************************************************************************)
(* check_position_correlation (lines 329-358): <<is_ok, max_corr>>         *)
(***************************************************************************)
RECURSIVE MaxCorr(_, _, _)
MaxCorr(new_prices, existing_positions, price_data) ==
    IF existing_positions = <<>> THEN 0
    ELSE LET pos_symbol == existing_positions[1].symbol
             rest == MaxCorr(new_prices, Tail(existing_positions), price_data)
         IN  IF pos_symbol \in DOMAIN price_data
             THEN Max(Correlation(new_prices, price_data[pos_symbol]), rest)
             ELSE rest

check_position_correlation(new_symbol, existing_positions, price_data) ==
    IF existing_positions = <<>> THEN <<TRUE, 0>>
    ELSE IF new_symbol \notin DOMAIN price_data THEN <<TRUE, 0>>
    ELSE LET max_corr == MaxCorr(price_data[new_symbol], existing_positions, price_data)
         IN  <<max_corr <= MAX_CORRELATION, max_corr>>

(***************************************************************************)
(* should_buy (lines 751-823): [ok, reason, score]                         *)
(***************************************************************************)
Reject(reason) == [ok |-> FALSE, reason |-> reason, score |-> 0]

should_buy(data, existing_positions, market_regime, price_history) ==
    LET score == calculate_coin_score(data)
        double_down == data.trend_1h = "DOWN" /\ data.trend_4h = "DOWN"
    IN  IF score < 100 THEN Reject("Score too low")
        ELSE IF market_regime = "BEAR" /\ score < 250 THEN Reject("Bear market")
        ELSE IF double_down /\ score < 250 THEN Reject("Double downtrend")
        ELSE IF data.rsi_1h > 75 THEN Reject("RSI overbought")
        ELSE IF data.momentum_short < -10 THEN Reject("Negative momentum")
        ELSE IF data.adx < 15 /\ score < 200 THEN Reject("Weak trend (low ADX)")
        ELSE IF existing_positions # <<>>
                /\ ~check_position_correlation(data.symbol, existing_positions,
                                               price_history)[1]
             THEN Reject("Too correlated with existing positions")
        ELSE IF data.obv_trend = "DOWN" /\ data.momentum_short < 10
             THEN Reject("OBV divergence")
        ELSE IF data.divergence_type = "BEARISH" /\ data.divergence_strength > 5
             THEN Reject("Strong bearish RSI divergence detected")
        ELSE [ok |-> TRUE, reason |-> "Score", score |-> score]

(***************************************************************************)
(* calculate_position_size (lines 694-749), in cents.  base_size is kept   *)
(* as a share of total_value, in basis points, until the caps.             *)
(***************************************************************************)
\* a size without the minimum check
NoFloor(adjusted_size) == FALSE

\* line 746: the size is under the minimum trade
BelowFloor(adjusted_size) == adjusted_size < MIN_TRADE_USDT

calculate_position_size(data, available_usdt, total_value, market_regime) ==
    LET coin_score == calculate_coin_score(data)
        \* signal_multiplier in tenths
        signal == IF coin_score > 300 THEN 16
                  ELSE IF coin_score > 200 THEN 13
                  ELSE IF coin_score > 100 THEN 10
                  ELSE 7
        \* base * signal * 0.6 + (VOLATILITY_TARGET / atr_pct) * base * 0.4,
        \* with base = total * BASE_POSITION_PCT and atr_pct = atr / price * 100
        blend == IF data.atr_pct > 0
                 THEN (BASE_POSITION_PCT
                          * (6 * signal * data.atr
                             + 4 * VOLATILITY_TARGET * data.price)) \div data.atr
                 ELSE BASE_POSITION_PCT * signal * 10
        regime == IF market_regime = "BEAR" THEN <<1, 2>>
                  ELSE IF market_regime = "NEUTRAL" THEN <<4, 5>>
                  ELSE <<1, 1>>
        trend == IF data.trend_1h = "UP" /\ data.trend_4h = "UP" THEN <<11, 10>>
                 ELSE IF data.trend_1h = "DOWN" /\ data.trend_4h = "DOWN" THEN <<1, 2>>
                 ELSE <<1, 1>>
        breakout == IF data.is_volume_breakout /\ data.momentum_short > 0
                    THEN <<23, 20>> ELSE <<1, 1>>
        base_share == (blend * regime[1] * trend[1] * breakout[1])
                          \div (regime[2] * trend[2] * breakout[2])
        \* min(base_size, max_single)
        capped == (total_value * Min(base_share, MAX_SINGLE_POSITION_PCT * 100))
                      \div 10000
        adjusted_size == Min(capped, (available_usdt * 95) \div 100)
    IN  IF BelowFloor(adjusted_size) THEN 0 ELSE adjusted_size


(***************************************************************************)
(* should_sell (lines 825-908)                                             *)
(***************************************************************************)
\* a mark that follows the last price instead of the highest one
TrackLastPrice(position_high_prices, symbol, current_price) ==
    Put(position_high_prices, symbol, current_price)

\* lines 841-846: the high-water mark after the update that precedes every
\* exit check
UpdateHigh(position_high_prices, symbol, current_price) ==
    IF symbol \notin DOMAIN position_high_prices
    THEN Put(position_high_prices, symbol, current_price)
    ELSE IF current_price > position_high_prices[symbol]
         THEN Put(position_high_prices, symbol, current_price)
         ELSE position_high_prices

\* a ladder that does not look at the levels already triggered
FirstReached(levels, pnl_pct, partial_sells) ==
    IF levels # <<>> /\ pnl_pct >= levels[1].level THEN levels[1].level ELSE 0

\* lines 868-870: the first ladder level reached and not yet triggered
\* (0: none)
RECURSIVE FirstLevel(_, _, _)
FirstLevel(levels, pnl_pct, partial_sells) ==
    IF levels = <<>> THEN 0
    ELSE IF pnl_pct >= levels[1].level /\ levels[1].level \notin partial_sells
         THEN levels[1].level
         ELSE FirstLevel(Tail(levels), pnl_pct, partial_sells)

PortionOf(level) ==
    LET i == CHOOSE i \in 1..Len(PARTIAL_PROFIT_LEVELS) :
                 PARTIAL_PROFIT_LEVELS[i].level = level
    IN  PARTIAL_PROFIT_LEVELS[i].portion

Exit(reason, portion, level) ==
    [sell |-> TRUE, reason |-> reason, portion |-> portion, level |-> level]

\* a stop that follows the ATR alone, without the hard cap
StopLossAtrOnly(pnl_pct, atr_pct) == pnl_pct <= -(atr_pct * ATR_STOP_MULTIPLIER)

\* lines 852 and 856: the ATR-adjusted stop, capped at HARD_STOP_LOSS_PCT
StopLossHit(pnl_pct, atr_pct) ==
    pnl_pct <= -Min(atr_pct * ATR_STOP_MULTIPLIER, HARD_STOP_LOSS_PCT)

\* a stale timeout that does not look at the age
StaleAtAnyAge(hours_held, pnl_pct) == pnl_pct <= STALE_POSITION_MIN_LOSS

\* lines 863-864: held long enough, and at a small loss or worse
StaleHit(hours_held, pnl_pct) ==
    /\ hours_held >= STALE_POSITION_HOURS
    /\ pnl_pct <= STALE_POSITION_MIN_LOSS

\* a trailing stop that is armed whatever the P&L
TrailingUnarmed(pnl_pct, drawdown_from_high, dynamic_trailing) == drawdown_from_high > dynamic_trailing

\* lines 878-879: armed above MIN_TAKE_PROFIT_PCT, hit when the retracement
\* from the high-water mark is over the dynamic distance
TrailingHit(pnl_pct, drawdown_from_high, dynamic_trailing) ==
    /\ pnl_pct > MIN_TAKE_PROFIT_PCT
    /\ drawdown_from_high > dynamic_trailing

\* The decision of should_sell; high_prices is position_high_prices after
\* UpdateHigh.  portion is in percent (100 = full exit); level is the ladder
\* level that lines 872-874 add to position_partial_sells (0: none).
should_sell(data, position, position_atr, high_prices, position_entry_times, position_partial_sells, market_regime, now) ==
    LET pnl_pct == position.pnl_percent
        symbol == position.symbol
        entry_price == position.avg_price
        current_price == data.price
        entry_atr == IF symbol \in DOMAIN position_atr
                     THEN position_atr[symbol] ELSE data.atr
        atr_pct == IF entry_price > 0
                   THEN (entry_atr * 1000) \div entry_price
                   ELSE data.atr_pct
        high_price == high_prices[symbol]
        drawdown_from_high ==
            IF high_price > 0
            THEN ((high_price - current_price) * 10000) \div high_price
            ELSE 0
        dynamic_trailing ==
            Min((atr_pct * TRAILING_STOP_ATR_MULT[1]) \div TRAILING_STOP_ATR_MULT[2],
                TRAILING_CAP)
        stale == /\ symbol \in DOMAIN position_entry_times
                 /\ StaleHit(now - position_entry_times[symbol], pnl_pct)
        partial_sells == IF symbol \in DOMAIN position_partial_sells
                         THEN position_partial_sells[symbol] ELSE {}
        level == FirstLevel(PARTIAL_PROFIT_LEVELS, pnl_pct, partial_sells)
    IN  IF StopLossHit(pnl_pct, atr_pct) THEN Exit("STOP_LOSS", 100, 0)
        ELSE IF stale THEN Exit("STALE_POSITION", 100, 0)
        ELSE IF level # 0 THEN Exit("PARTIAL_PROFIT", PortionOf(level), level)
        ELSE IF TrailingHit(pnl_pct, drawdown_from_high, dynamic_trailing)
             THEN Exit("TRAILING_STOP", 100, 0)
        ELSE IF pnl_pct >= AGGRESSIVE_TAKE_PROFIT_PCT THEN Exit("TAKE_PROFIT", 100, 0)
        ELSE IF data.rsi_1h >= 80 /\ pnl_pct > 0 THEN Exit("RSI_EXTREME", 100, 0)
        ELSE IF data.macd_signal = -2 /\ pnl_pct > 100 THEN Exit("MACD_BEARISH", 100, 0)
        ELSE IF data.momentum_short < -30 /\ pnl_pct > 0
             THEN Exit("MOMENTUM_REVERSAL", 100, 0)
        ELSE IF market_regime = "BEAR" /\ pnl_pct > 0
                /\ data.trend_1h = "DOWN" /\ data.trend_4h = "DOWN"
             THEN Exit("REGIME_SHIFT", 100, 0)
        ELSE IF data.divergence_type = "BEARISH" /\ pnl_pct > 200
                /\ data.divergence_strength > 6
             THEN Exit("BEARISH_DIVERGENCE", 100, 0)
        ELSE [sell |-> FALSE, reason |-> "", portion |-> 0, level |-> 0]

\* a ladder that forgets which levels it triggered
MarkNothing(position_partial_sells, symbol, level) == position_partial_sells

\* lines 872-874: the triggered set after the decision
MarkLevel(position_partial_sells, symbol, level) ==
    IF level = 0 THEN position_partial_sells
    ELSE Put(position_partial_sells, symbol,
             (IF symbol \in DOMAIN position_partial_sells
              THEN position_partial_sells[symbol] ELSE {}) \cup {level})

(***************************************************************************)
(* check_rotation (lines 910-962): a rotation plan, or NoPlan for None      *)
(***************************************************************************)
\* min(current_scores, key=current_scores.get): the first lowest-scoring
\* position that has market data
RECURSIVE WorstOf(_, _)
WorstOf(positions, market_data) ==
    IF positions = <<>> THEN None
    ELSE LET symbol == positions[1].symbol
             rest == WorstOf(Tail(positions), market_data)
         IN  IF symbol \notin DOMAIN market_data THEN rest
             ELSE IF rest = None THEN symbol
             ELSE IF calculate_coin_score(market_data[rest])
                       < calculate_coin_score(market_data[symbol])
                  THEN rest ELSE symbol

\* lines 940-947: <<best_new_symbol, best_new_score>> over market_data in
\* insertion (whitelist) order, starting from <<None, 0>>
RECURSIVE BestNew(_, _, _, _)
BestNew(symbols, market_data, held_currencies, best) ==
    IF symbols = <<>> THEN best
    ELSE LET symbol == symbols[1]
             better == /\ symbol \in DOMAIN market_data
                       /\ Currency(symbol) \notin held_currencies
                       /\ calculate_coin_score(market_data[symbol]) > best[2]
         IN  BestNew(Tail(symbols), market_data, held_currencies,
                     IF better
                     THEN <<symbol, calculate_coin_score(market_data[symbol])>>
                     ELSE best)

\* a rotation decision without the P&L guard
RotateOnMargin(best_new_score, worst_score, pnl_percent) ==
    best_new_score > worst_score + MIN_ROTATION_IMPROVEMENT

\* lines 950-953: the margin over the worst held score and the P&L guard
ShouldRotate(best_new_score, worst_score, pnl_percent) ==
    /\ best_new_score > worst_score + MIN_ROTATION_IMPROVEMENT
    /\ pnl_percent < 100

NoPlan ==
    [sell_symbol |-> None, sell_score |-> 0, buy_symbol |-> None, buy_score |-> 0,
     improvement |-> 0]

check_rotation(current_positions, market_data, last_rotation_time, now) ==
    IF current_positions = <<>> THEN NoPlan
    ELSE IF last_rotation_time # NoValue
            /\ now - last_rotation_time < ROTATION_INTERVAL_HOURS THEN NoPlan
    ELSE LET worst_symbol == WorstOf(current_positions, market_data)
         IN  IF worst_symbol = None THEN NoPlan
             ELSE
             LET worst_score == calculate_coin_score(market_data[worst_symbol])
                 held_currencies ==
                     {current_positions[i].currency : i \in 1..Len(current_positions)}
                 best == BestNew(WHITELIST_SYMBOLS, market_data, held_currencies,
                                 <<None, 0>>)
                 worst_pos == CHOOSE p \in Range(current_positions) :
                                  p.symbol = worst_symbol
             IN  IF /\ best[1] # None
                    /\ ShouldRotate(best[2], worst_score, worst_pos.pnl_percent)
                 THEN [sell_symbol |-> worst_symbol, sell_score |-> worst_score,
                       buy_symbol |-> best[1], buy_score |-> best[2],
                       improvement |-> best[2] - worst_score]
                 ELSE NoPlan

(***************************************************************************)
(* check_risk_limits (lines 964-999).  history is the list of total_value  *)
(* stored in EQUITY_FILE (<<>>: no file), today the wall-clock date.       *)
(***************************************************************************)
\* EQUITY_FILE is kept as the sequence of the total_value of its entries,
\* <<>> when the file is missing.  Unreadable stands for a file that exists
\* and on which json.load raises.
Unreadable == <<NoValue>>

\* lines 1005-1012: the history save_equity_snapshot starts from
LoadHistory(file) == IF file = Unreadable THEN <<>> ELSE file

\* lines 978-984: the drawdown from the peak is over MAX_DRAWDOWN_PCT
DrawdownBreached(peak_value, current_value) ==
    /\ peak_value > 0
    /\ (peak_value - current_value) * 10000 > MAX_DRAWDOWN_PCT * peak_value

\* a check that never halts on the loss of the day
DailyLossIgnored(current_value, start) == FALSE

\* lines 991-997: the loss since the start of the day is over
\* DAILY_LOSS_LIMIT_PCT
DailyLossBreached(current_value, start) ==
    /\ start # NoValue
    /\ start > 0
    /\ (current_value - start) * 10000 < -(DAILY_LOSS_LIMIT_PCT * start)

\* a baseline that is taken anew at every check
AlwaysNewDay(daily_start_date, today) == TRUE

\* line 990: the stored date is not today's
NewDay(daily_start_date, today) == daily_start_date # today

check_risk_limits(history, today, daily_start_date, daily_starting_value) ==
    LET keep == [daily_start_date |-> daily_start_date,
                 daily_starting_value |-> daily_starting_value]
    IN
    IF history = Unreadable \/ Len(history) < 2
    THEN [can_trade |-> TRUE, reason |-> ""] @@ keep
    ELSE
    LET current_value == history[Len(history)]
        peak_value == SeqMax(history)
        start == IF NewDay(daily_start_date, today) THEN current_value
                 ELSE daily_starting_value
        daily == [daily_start_date |-> today, daily_starting_value |-> start]
    IN  IF DrawdownBreached(peak_value, current_value)
        THEN [can_trade |-> FALSE, reason |-> "Max drawdown"] @@ keep
        ELSE IF DailyLossBreached(current_value, start)
        THEN [can_trade |-> FALSE, reason |-> "Daily loss limit"] @@ daily
        ELSE [can_trade |-> TRUE, reason |-> ""] @@ daily


(***************************************************************************)
(* State                                                                   *)
(***************************************************************************)
VARIABLES
    \* the exchange account and market (BinanceClient's view of Binance)
    balance,                \* total balance per symbol's currency
    avg_price,              \* average buy price of the recent buy trades
    usdt,                   \* free USDT
    ticker,                 \* last price per symbol
    \* AggressiveMomentumStrategy fields (__init__, lines 403-415)
    position_entry_prices,
    position_high_prices,
    position_atr,
    position_entry_times,
    position_partial_sells,
    last_rotation_time,
    daily_starting_value,
    daily_start_date,
    market_regime,
    price_history,
    \* EQUITY_FILE: the total_value of each stored snapshot
    equity_history,
    \* run_strategy_loop / run_once control
    running,                \* the stop flag of run_aggressive_strategy.py, line 26
    pc,                     \* "idle" between cycles, "stopped" after the loop,
                            \* else the step of run_once; in the other
                            \* specifications the function about to be called
    clock,                  \* wall clock, hours
    cycles,                 \* run_once calls started
    failures,               \* exchange failures injected so far
    \* locals of the running run_once
    market_data,
    positions,
    idx,                    \* index of the positions loop (line 1169)
    sold_symbols,
    actions,                \* result['actions']
    can_trade,              \* the result of check_risk_limits (line 1133)
    rotation,               \* the plan of check_rotation (line 1192)
    \* history of what happened, kept for the properties
    fired,                  \* per held position: times each ladder level fired
    dipped,                 \* per held position: fired levels the P&L fell below since
    rotation_log,           \* the rotations that went as far as execute_sell
    \* what the current cycle did, in order: evaluations, orders, log_action
    events,
    \* RSIMeanReversionStrategy (strategy.py)
    analysis,               \* the result of analyze_market (line 256)
    opened                  \* history: the symbols it bought and still holds

exchange_vars == <<balance, avg_price, usdt, ticker>>
record_vars == <<position_entry_prices, position_high_prices, position_atr,
                 position_entry_times, position_partial_sells>>
risk_vars == <<daily_starting_value, daily_start_date>>
local_vars == <<market_data, positions, idx, sold_symbols, actions, can_trade,
                rotation>>
history_vars == <<fired, dipped, rotation_log>>
rsi_vars == <<analysis, opened>>
vars == <<exchange_vars, record_vars, risk_vars, local_vars, history_vars, rsi_vars,
          last_rotation_time,
          market_regime, price_history, equity_history, running, pc, clock,
          cycles, failures, events>>

(***************************************************************************)
(* exchange.py                                                             *)
(***************************************************************************)
\* get_position (lines 211-252); None when nothing is held
get_position(symbol, bal, avg, tick) ==
    LET amount == bal[symbol]
        current_price == tick[symbol]
        current_value == amount * current_price
        cost_value == amount * avg[symbol]
    IN  [currency |-> Currency(symbol), symbol |-> symbol, amount |-> amount,
         avg_price |-> avg[symbol], current_price |-> current_price,
         current_value |-> current_value,
         pnl_percent |-> IF cost_value > 0
                         THEN ((current_value - cost_value) * 10000) \div cost_value
                         ELSE 0]

\* get_all_positions (lines 254-261), in whitelist order
get_all_positions(bal, avg, tick) ==
    LET all == [i \in 1..Len(WHITELIST_SYMBOLS) |->
                   get_position(WHITELIST_SYMBOLS[i], bal, avg, tick)]
    IN  SelectSeq(all, LAMBDA pos : pos.amount > 0)

\* calculate_total_value_usdt (lines 188-209)
calculate_total_value_usdt(bal, free_usdt, tick) ==
    free_usdt
    + SeqSum([i \in 1..Len(WHITELIST_SYMBOLS) |->
                 bal[WHITELIST_SYMBOLS[i]] * tick[WHITELIST_SYMBOLS[i]]])

(***************************************************************************)
(* The part of the state execute_buy and execute_sell work on              *)
(***************************************************************************)
Store ==
    [balance |-> balance, avg_price |-> avg_price, usdt |-> usdt,
     position_entry_prices |-> position_entry_prices,
     position_high_prices |-> position_high_prices,
     position_atr |-> position_atr,
     position_entry_times |-> position_entry_times,
     position_partial_sells |-> position_partial_sells,
     failures |-> failures, events |-> events]

Event(type, symbol, amount) == [type |-> type, symbol |-> symbol, amount |-> amount]

Emit(st, type, symbol, amount) ==
    [st EXCEPT !.events = Append(@, Event(type, symbol, amount))]

\* whether the environment may fail one more exchange call
MayFail(st) == st.failures < MaxFailures

(***************************************************************************)
(* execute_sell (lines 1069-1117): <<store, result>> with result "dust",   *)
(* "order" or None.  fail: the exchange call raises.                       *)
(***************************************************************************)
ClearRecords(st, symbol) ==
    [st EXCEPT !.position_entry_prices = Del(@, symbol),
               !.position_high_prices = Del(@, symbol),
               !.position_atr = Del(@, symbol),
               !.position_entry_times = Del(@, symbol),
               !.position_partial_sells = Del(@, symbol)]

\* a sell that clears the records whatever is_full_exit says
ClearsAlways(is_full_exit) == TRUE

\* line 1089: only a full exit clears the records
Clears(is_full_exit) == is_full_exit

\* an execute_sell without the check of the minimum
NeverDust(amount) == FALSE

\* line 1074: the quantity is under the exchange's minimum
IsDust(amount) == amount < MinOrderAmount

\* an except branch that drops the records of the symbol
SellFailedCleared(st, symbol, amount) ==
    Emit(ClearRecords(st, symbol), "LOG_SELL_FAILED", symbol, amount)

\* lines 1114-1117: the except branch logs SELL_FAILED; create_market_sell
\* is the first statement of the try, so nothing else was touched
SellFailed(st, symbol, amount) == Emit(st, "LOG_SELL_FAILED", symbol, amount)

execute_sell(st, symbol, amount, price, is_full_exit, fail) ==
    IF IsDust(amount)
    THEN <<Emit(st, "LOG_DUST_POSITION", symbol, amount), "dust">>
    ELSE
    LET submitted == Emit(st, "SELL_ORDER", symbol, amount)
    IN  IF fail \/ amount > st.balance[symbol]
        THEN << SellFailed([submitted EXCEPT !.failures = IF fail THEN @ + 1 ELSE @],
                           symbol, amount),
                None >>
        ELSE
        LET filled == [submitted EXCEPT !.balance[symbol] = @ - amount,
                                        !.usdt = @ + amount * price]
            cleared == IF Clears(is_full_exit) THEN ClearRecords(filled, symbol)
                       ELSE filled
            \* lines 1101-1109: the SELL log entry carries is_partial
        IN  <<Emit(cleared, IF is_full_exit THEN "LOG_SELL" ELSE "LOG_SELL_PARTIAL",
                   symbol, amount), "order">>

(***************************************************************************)
(* execute_buy (lines 1026-1067) with create_market_buy_usdt (exchange.py  *)
(* lines 165-180): <<store, result>> with result "order" or None           *)
(***************************************************************************)
execute_buy(st, symbol, usdt_amount, data, price, now, fail) ==
    IF usdt_amount < MIN_ORDER_USDT
    THEN <<st, None>>
    ELSE
    LET amount == usdt_amount \div price
        submitted == Emit(st, "BUY_ORDER", symbol, usdt_amount)
        rejected == amount < MinOrderAmount \/ amount * price > st.usdt
    IN  IF fail \/ rejected
        THEN << Emit([submitted EXCEPT !.failures = IF fail THEN @ + 1 ELSE @],
                     "LOG_BUY_FAILED", symbol, usdt_amount),
                None >>
        ELSE
        LET held == st.balance[symbol]
            filled ==
                [submitted EXCEPT
                    !.balance[symbol] = held + amount,
                    !.usdt = @ - amount * price,
                    !.avg_price[symbol] =
                        (held * st.avg_price[symbol] + amount * price)
                            \div (held + amount),
                    !.position_entry_prices = Put(@, symbol, price),
                    !.position_high_prices = Put(@, symbol, price),
                    !.position_atr = Put(@, symbol, data.atr),
                    !.position_entry_times = Put(@, symbol, now),
                    !.position_partial_sells = Put(@, symbol, {})]
        IN  <<Emit(filled, "LOG_BUY", symbol, usdt_amount), "order">>

\* the variables of a store written back
Commit(st) ==
    /\ balance' = st.balance
    /\ avg_price' = st.avg_price
    /\ usdt' = st.usdt
    /\ position_entry_prices' = st.position_entry_prices
    /\ position_high_prices' = st.position_high_prices
    /\ position_atr' = st.position_atr
    /\ position_entry_times' = st.position_entry_times
    /\ position_partial_sells' = st.position_partial_sells
    /\ failures' = st.failures
    /\ events' = st.events


(***************************************************************************)
(* The environment: what the exchange shows at the start of a cycle.       *)
(* regime is the outcome of detect_market_regime, px the last prices, ind  *)
(* the indicator bundle get_market_data computes per symbol ("NONE": the   *)
(* candles are missing and get_market_data returns None).                  *)
(***************************************************************************)
Scenario(dt, regime, p1, i1, p2, i2, p3, i3) ==
    [dt |-> dt, regime |-> regime,
     px |-> [s \in Symbols |-> CASE s = "BTC/USDT" -> p1
                                 [] s = "SOL/USDT" -> p2
                                 [] s = "XRP/USDT" -> p3],
     ind |-> [s \in Symbols |-> CASE s = "BTC/USDT" -> i1
                                  [] s = "SOL/USDT" -> i2
                                  [] s = "XRP/USDT" -> i3]]

\* dt: the hours since the start of the previous cycle
Scenarios ==
    { Scenario(3, "BULL", 100, "STRONG", 100, "MID", 100, "WEAK"),
      Scenario(3, "BULL", 104, "MID", 104, "WEAK", 100, "GOOD"),
      Scenario(24, "BULL", 110, "TOPPY", 106, "MID", 100, "MID"),
      Scenario(3, "NEUTRAL", 102, "MID", 99, "WEAK", 98, "GOOD"),
      Scenario(24, "BEAR", 80, "WEAK", 96, "WEAK", 100, "MID"),
      Scenario(3, "BULL", 100, "WEAK", 100, "NONE", 100, "STRONG") }

\* the account when the strategy is constructed
Account(free, b1, b2, b3) ==
    [usdt |-> free,
     balance |-> [s \in Symbols |-> CASE s = "BTC/USDT" -> b1
                                      [] s = "SOL/USDT" -> b2
                                      [] s = "XRP/USDT" -> b3]]

Setup(account, equity_file) == [account |-> account, equity_file |-> equity_file]

\* the account and EQUITY_FILE when the strategy is constructed
Setups ==
    { Setup(Account(100000, 0, 0, 0), Unreadable),
      Setup(Account(40000, 300, 300, 0), <<>>),
      Setup(Account(69500, 300, 5, 0), <<100000, 100000>>),
      Setup(Account(40000, 300, 300, 0), <<115000, 100000>>) }

Accounts == {setup.account : setup \in Setups}

EquityFiles == {setup.equity_file : setup \in Setups}

Levels == {PARTIAL_PROFIT_LEVELS[i].level : i \in 1..Len(PARTIAL_PROFIT_LEVELS)}
NotFired == [l \in Levels |-> 0]

(***************************************************************************)
(* get_market_data (lines 454-609) for every whitelist symbol              *)
(***************************************************************************)
get_market_data(symbol, sc) ==
    [symbol |-> symbol, price |-> sc.px[symbol],
     atr_pct |-> (Indicators(sc.ind[symbol]).atr * 1000) \div sc.px[symbol]]
    @@ Indicators(sc.ind[symbol])

FetchMarketData(sc) ==
    [s \in {x \in Symbols : sc.ind[x] # "NONE"} |-> get_market_data(s, sc)]

\* line 565: self.price_history[symbol] = closes_1h
StorePriceHistory(history, md) ==
    [s \in (DOMAIN history) \cup (DOMAIN md) |->
        IF s \in DOMAIN md THEN md[s].closes ELSE history[s]]

\* line 1160: the symbols of market_data by descending score; sorted() is
\* stable, so equal scores keep whitelist order
SortedCoins(symbols, md) ==
    LET score == [i \in 1..Len(symbols) |-> calculate_coin_score(md[symbols[i]])]
        \* how many symbols sorted() puts before symbols[i]
        before == [i \in 1..Len(symbols) |->
                      Cardinality({j \in 1..Len(symbols) :
                                      \/ score[j] > score[i]
                                      \/ score[j] = score[i] /\ j < i})]
    IN  [k \in 1..Len(symbols) |->
            symbols[CHOOSE i \in 1..Len(symbols) : before[i] = k - 1]]

sorted_coins(md) ==
    SortedCoins(SelectSeq(WHITELIST_SYMBOLS, LAMBDA s : s \in DOMAIN md), md)

\* [p for p in positions if p['symbol'] not in sold_symbols]
Remaining(pos, sold) == SelectSeq(pos, LAMBDA p : p.symbol \notin sold)

\* a run_once that ignores the verdict of check_risk_limits
HaltIgnored(risk) == FALSE

\* line 1134: run_once returns when check_risk_limits forbids trading
HaltReturns(risk) == ~risk.can_trade

\* a run_once that looks for entries before it looks at the positions
EntryFirst(pos) == "entry"

\* where run_once goes after the market data and the positions are fetched
\* (lines 1163-1169)
AfterFetch(pos) == IF pos = <<>> THEN "rotation" ELSE "positions"

\* a caller that does not look at what execute_sell returned
AnyResult(result) == TRUE

\* line 1203 and line 1183: the sell went through
SellSucceeded(result) == result = "order"

(***************************************************************************)
(* Init: the strategy object after __init__, an account, an equity file    *)
(***************************************************************************)
\* the analysis before the first analyze_market
NoAnalysis == [signals |-> <<>>, rsi_data |-> EmptyDict]

\* at: where the process stands once the strategy object is constructed
InitAt(setup, at) ==
    /\ balance = setup.account.balance
    /\ usdt = setup.account.usdt
    /\ avg_price = [s \in Symbols |-> IF setup.account.balance[s] > 0 THEN 100 ELSE 0]
    /\ equity_history = setup.equity_file
    /\ ticker = [s \in Symbols |-> 100]
    /\ position_entry_prices = EmptyDict
    /\ position_high_prices = EmptyDict
    /\ position_atr = EmptyDict
    /\ position_entry_times = EmptyDict
    /\ position_partial_sells = EmptyDict
    /\ last_rotation_time = NoValue
    /\ daily_starting_value = NoValue
    /\ daily_start_date = NoValue
    /\ market_regime = "NEUTRAL"
    /\ price_history = EmptyDict
    /\ running = TRUE
    /\ pc = at
    /\ clock = 0
    /\ cycles = 0
    /\ failures = 0
    /\ market_data = EmptyDict
    /\ positions = <<>>
    /\ idx = 1
    /\ sold_symbols = {}
    /\ actions = <<>>
    /\ can_trade = TRUE
    /\ rotation = NoPlan
    /\ fired = [s \in Symbols |-> NotFired]
    /\ dipped = [s \in Symbols |-> {}]
    /\ rotation_log = <<>>
    /\ events = <<>>
    /\ analysis = NoAnalysis
    /\ opened = {}

\* AggressiveMomentumStrategy, between two cycles of run_strategy_loop
InitWith(setup) == InitAt(setup, "idle")

Init == \E setup \in Setups : InitWith(setup)

\* a loop that does not look at the stop flag
IgnoresFlag(flag) == TRUE

\* run_aggressive_strategy.py, line 92: `while running`
LoopContinues(flag) == flag

\* a position's ladder history lasts from its opening to its full exit
FiredAfter(f, bal_before, bal_after) ==
    [s \in Symbols |-> IF bal_before[s] = 0 \/ bal_after[s] = 0
                       THEN NotFired ELSE f[s]]

DippedAfter(f, bal_before, bal_after) ==
    [s \in Symbols |-> IF bal_before[s] = 0 \/ bal_after[s] = 0
                       THEN {} ELSE f[s]]

(***************************************************************************)
(* run_once, step 1 (lines 1132-1137): the risk check halts the cycle.     *)
(* The market moves all the same: the exchange shows the prices of sc.     *)
(***************************************************************************)
RunOnceHalt(sc) ==
    /\ pc = "idle"
    /\ LoopContinues(running)
    /\ cycles < MaxCycles
    /\ LET now == clock + sc.dt
           risk == check_risk_limits(equity_history, now \div 24,
                                     daily_start_date, daily_starting_value)
       IN  /\ HaltReturns(risk)
           /\ clock' = now
           /\ can_trade' = risk.can_trade
           /\ daily_start_date' = risk.daily_start_date
           /\ daily_starting_value' = risk.daily_starting_value
    /\ events' = <<Event("RISK_CHECK", None, 0), Event("LOG_RISK_HALT", None, 0)>>
    /\ cycles' = cycles + 1
    /\ market_data' = EmptyDict
    /\ positions' = <<>>
    /\ idx' = 1
    /\ sold_symbols' = {}
    /\ actions' = <<>>
    /\ rotation' = NoPlan
    /\ ticker' = sc.px
    /\ UNCHANGED rsi_vars
    /\ UNCHANGED <<balance, avg_price, usdt, record_vars, history_vars,
                   last_rotation_time, market_regime, price_history,
                   equity_history, running, pc, failures>>

(***************************************************************************)
(* run_once, steps 1-4 (lines 1132-1165): the risk check passes, then the  *)
(* regime, the market data and the positions are read                      *)
(***************************************************************************)
RunOnceBegin(sc) ==
    /\ pc = "idle"
    /\ LoopContinues(running)
    /\ cycles < MaxCycles
    /\ LET now == clock + sc.dt
           risk == check_risk_limits(equity_history, now \div 24,
                                     daily_start_date, daily_starting_value)
       IN  /\ ~HaltReturns(risk)
           /\ clock' = now
           /\ can_trade' = risk.can_trade
           /\ daily_start_date' = risk.daily_start_date
           /\ daily_starting_value' = risk.daily_starting_value
    /\ market_regime' = sc.regime
    /\ ticker' = sc.px
    /\ market_data' = FetchMarketData(sc)
    /\ price_history' = StorePriceHistory(price_history, market_data')
    /\ positions' = get_all_positions(balance, avg_price, ticker')
    /\ idx' = 1
    /\ sold_symbols' = {}
    /\ actions' = <<>>
    /\ rotation' = NoPlan
    /\ events' = <<Event("RISK_CHECK", None, 0)>>
    /\ cycles' = cycles + 1
    /\ pc' = AfterFetch(positions')
    /\ UNCHANGED rsi_vars
    /\ UNCHANGED <<balance, avg_price, usdt, record_vars, history_vars,
                   last_rotation_time, equity_history, running, failures>>


(***************************************************************************)
(* run_once, step 4 (lines 1169-1187): one iteration of the positions loop *)
(***************************************************************************)
\* lines 1176 and 841-875: should_sell with its two side effects
EvaluateExit(st, pos, data, decision) ==
    [st EXCEPT
        !.position_partial_sells = MarkLevel(@, pos.symbol, decision.level),
        !.events = @ \o <<Event("SHOULD_SELL", pos.symbol, decision.portion)>>
                     \o (IF decision.level # 0
                         THEN <<Event("PARTIAL_PROFIT", pos.symbol, decision.level)>>
                         ELSE <<>>)]

CheckPosition(fail) ==
    /\ pc = "positions"
    /\ fail => MayFail(Store)
    /\ \E pos \in {positions[idx]} :
       IF pos.symbol \notin DOMAIN market_data
       THEN /\ ~fail
            /\ UNCHANGED <<exchange_vars, record_vars, failures, events,
                           sold_symbols, actions, fired, dipped>>
       ELSE
       \E data \in {market_data[pos.symbol]} :
       \E high \in {UpdateHigh(position_high_prices, pos.symbol, data.price)} :
       \E decision \in {should_sell(data, pos, position_atr, high,
                                    position_entry_times, position_partial_sells,
                                    market_regime, clock)} :
       \E evaluated \in {EvaluateExit([Store EXCEPT !.position_high_prices = high],
                                      pos, data, decision)} :
       \E counted \in {IF decision.level # 0
                       THEN [fired EXCEPT ![pos.symbol][decision.level] = @ + 1]
                       ELSE fired} :
       \E seen \in {[dipped EXCEPT ![pos.symbol] =
                         @ \cup {l \in Levels : /\ fired[pos.symbol][l] > 0
                                                /\ pos.pnl_percent < l}]} :
          IF ~decision.sell
          THEN /\ ~fail
               /\ Commit(evaluated)
               /\ fired' = counted
               /\ dipped' = seen
               /\ UNCHANGED <<ticker, sold_symbols, actions>>
          ELSE
          LET sell_amount == (pos.amount * decision.portion) \div 100
              is_full_exit == \/ decision.portion >= 100
                              \/ pos.amount * decision.portion >= pos.amount * 95
          IN
          \E sold \in {execute_sell(evaluated, pos.symbol, sell_amount, data.price,
                                    is_full_exit, fail)} :
               /\ Commit(sold[1])
               /\ fired' = FiredAfter(counted, balance, sold[1].balance)
               /\ dipped' = DippedAfter(seen, balance, sold[1].balance)
               /\ ticker' = ticker
               /\ actions' = IF SellSucceeded(sold[2])
                             THEN Append(actions,
                                         Event(IF is_full_exit THEN "SELL"
                                               ELSE "PARTIAL_SELL", pos.symbol, 0))
                             ELSE actions
               /\ sold_symbols' = IF SellSucceeded(sold[2]) /\ is_full_exit
                                  THEN sold_symbols \cup {pos.symbol}
                                  ELSE sold_symbols
    /\ idx' = idx + 1
    /\ pc' = IF idx = Len(positions) THEN "rotation" ELSE "positions"
    /\ UNCHANGED rsi_vars
    /\ UNCHANGED <<risk_vars, market_data, positions, can_trade, rotation,
                   rotation_log, last_rotation_time, market_regime, price_history,
                   equity_history, running, clock, cycles>>

(***************************************************************************)
(* run_once, step 5 (lines 1189-1213): rotation                            *)
(***************************************************************************)
Rotation(fail_sell, fail_buy) ==
    /\ pc = "rotation"
    /\ \E remaining_positions \in {Remaining(positions, sold_symbols)} :
       \E plan \in {IF remaining_positions = <<>> THEN NoPlan
                    ELSE check_rotation(remaining_positions, market_data,
                                        last_rotation_time, clock)} :
       \E marked \in {Emit(Store, "CHECK_ROTATION", plan.sell_symbol, 0)} :
       /\ rotation' = plan
       /\ IF plan = NoPlan
          THEN /\ ~fail_sell /\ ~fail_buy
               /\ Commit(marked)
               /\ UNCHANGED <<ticker, sold_symbols, actions, last_rotation_time,
                              history_vars>>
          ELSE
          \E sell_pos \in {q \in Range(remaining_positions) :
                              q.symbol = plan.sell_symbol} :
          \E sold \in {execute_sell(marked, plan.sell_symbol, sell_pos.amount,
                                    market_data[plan.sell_symbol].price, TRUE,
                                    fail_sell)} :
              /\ fail_sell => MayFail(marked)
              /\ rotation_log' =
                    Append(rotation_log,
                           [time |-> clock,
                            outcome |-> IF sold[2] = "dust" THEN "dust"
                                        ELSE IF sold[2] = None THEN "failed"
                                        ELSE "sold"])
              /\ ticker' = ticker
              /\ IF SellSucceeded(sold[2])
                 THEN \E bought \in
                          {execute_buy(sold[1], plan.buy_symbol,
                                       (sell_pos.current_value * 98) \div 100,
                                       market_data[plan.buy_symbol],
                                       ticker[plan.buy_symbol], clock, fail_buy)} :
                      /\ fail_buy => MayFail(sold[1])
                      /\ Commit(bought[1])
                      /\ fired' = FiredAfter(fired, balance, bought[1].balance)
                      /\ dipped' = DippedAfter(dipped, balance, bought[1].balance)
                      /\ sold_symbols' = sold_symbols \cup {plan.sell_symbol}
                      /\ actions' =
                            actions
                            \o <<Event("ROTATION_SELL", plan.sell_symbol, 0)>>
                            \o (IF bought[2] # None
                                THEN <<Event("ROTATION_BUY", plan.buy_symbol, 0)>>
                                ELSE <<>>)
                      /\ last_rotation_time' = clock
                 ELSE /\ ~fail_buy
                      /\ Commit(sold[1])
                      /\ UNCHANGED <<fired, dipped, sold_symbols, actions,
                                     last_rotation_time>>
    /\ pc' = "entry"
    /\ UNCHANGED rsi_vars
    /\ UNCHANGED <<risk_vars, market_data, positions, idx, can_trade,
                   market_regime, price_history, equity_history, running, clock,
                   cycles>>

(***************************************************************************)
(* run_once, steps 6-7 (lines 1215-1270): entry and equity snapshot        *)
(***************************************************************************)
\* lines 1240-1247: the unheld symbols of sorted_coins, in order
Unheld(md, held_currencies) ==
    SelectSeq(sorted_coins(md), LAMBDA s : Currency(s) \notin held_currencies)

\* a cap that keeps the oldest entries
KeepOldest(history) ==
    IF Len(history) > 2000 THEN SubSeq(history, 1, 2000) ELSE history

\* line 1022: history[-2000:]
KeepLatest(history) ==
    IF Len(history) > 2000
    THEN SubSeq(history, Len(history) - 1999, Len(history))
    ELSE history

\* save_equity_snapshot (lines 1001-1024): file is EQUITY_FILE before the
\* call, the result is EQUITY_FILE after it
save_equity_snapshot(file, total_value) ==
    KeepLatest(Append(LoadHistory(file), total_value))

\* line 1229: position_ratio >= MAX_TOTAL_POSITION_PCT, position_ratio being
\* 0 when total_value is 0
AtPositionLimit(position_value, total_value) ==
    IF total_value > 0
    THEN position_value * 100 >= MAX_TOTAL_POSITION_PCT * total_value
    ELSE 0 >= MAX_TOTAL_POSITION_PCT

PositionValue(remaining_positions) ==
    SeqSum([i \in 1..Len(remaining_positions) |->
               remaining_positions[i].current_value])

Entry(fail) ==
    /\ pc = "entry"
    /\ fail => MayFail(Store)
    /\ \E total_value \in {calculate_total_value_usdt(balance, usdt, ticker)} :
       \E remaining_positions \in {Remaining(positions, sold_symbols)} :
       \E marked \in {Emit(Store, "ENTRY", None, total_value)} :
       /\ IF \/ AtPositionLimit(PositionValue(remaining_positions), total_value)
             \/ usdt < MIN_TRADE_USDT
          THEN /\ ~fail
               /\ Commit(marked)
               /\ UNCHANGED <<fired, dipped, actions>>
          ELSE
          \E evaluated \in
              {Unheld(market_data,
                      {remaining_positions[i].currency :
                          i \in 1..Len(remaining_positions)})} :
          \E buy_candidates \in
              {SelectSeq(evaluated,
                         LAMBDA s : should_buy(market_data[s], remaining_positions,
                                               market_regime, price_history).ok)} :
          \E looked \in
              {[marked EXCEPT
                   !.events = @ \o [i \in 1..Len(evaluated) |->
                                      Event("SHOULD_BUY", evaluated[i], 0)]]} :
             IF buy_candidates = <<>>
             THEN /\ ~fail
                  /\ Commit(looked)
                  /\ UNCHANGED <<fired, dipped, actions>>
             ELSE
             \E symbol \in {buy_candidates[1]} :
             \E position_size \in
                 {calculate_position_size(market_data[symbol], usdt, total_value,
                                          market_regime)} :
                IF position_size < MIN_TRADE_USDT
                THEN /\ ~fail
                     /\ Commit(looked)
                     /\ UNCHANGED <<fired, dipped, actions>>
                ELSE
                \E bought \in {execute_buy(looked, symbol, position_size,
                                           market_data[symbol], ticker[symbol],
                                           clock, fail)} :
                   /\ Commit(bought[1])
                   /\ fired' = FiredAfter(fired, balance, bought[1].balance)
                   /\ dipped' = DippedAfter(dipped, balance, bought[1].balance)
                   /\ actions' = IF bought[2] # None
                                 THEN Append(actions, Event("BUY", symbol, 0))
                                 ELSE actions
       /\ equity_history' = save_equity_snapshot(equity_history, total_value)
    /\ pc' = "idle"
    /\ UNCHANGED rsi_vars
    /\ UNCHANGED <<ticker, risk_vars, market_data, positions, idx, sold_symbols,
                   can_trade, rotation, rotation_log, last_rotation_time,
                   market_regime, price_history, running, clock, cycles>>

(***************************************************************************)
(* run_once raises.  Two exchange calls of a cycle sit outside every try:  *)
(* get_min_order_amount in execute_sell (line 1072, before the try of line *)
(* 1078) and get_balance before the entries (line 1217).  The exception    *)
(* leaves run_once and reaches run_strategy_loop, which logs ERROR, pauses *)
(* and goes back to the head of its loop (run_aggressive_strategy.py,      *)
(* lines 113-123).                                                         *)
(***************************************************************************)
\* log_action('ERROR', ...) of run_strategy_loop
LogError(st) == Emit([st EXCEPT !.failures = @ + 1], "LOG_ERROR", None, 0)

\* a loop that an exception ends
DiesOnError == "stopped"

\* lines 116-125: after the ERROR log and the pause the loop is back at
\* `while running`
AfterError == "idle"

\* the positions loop: should_sell asks for a sell, the lookup raises
SellLookupRaises ==
    /\ pc = "positions"
    /\ MayFail(Store)
    /\ \E pos \in {positions[idx]} :
       /\ pos.symbol \in DOMAIN market_data
       /\ \E data \in {market_data[pos.symbol]} :
          \E high \in {UpdateHigh(position_high_prices, pos.symbol, data.price)} :
          \E decision \in {should_sell(data, pos, position_atr, high,
                                       position_entry_times, position_partial_sells,
                                       market_regime, clock)} :
          \E evaluated \in {EvaluateExit([Store EXCEPT !.position_high_prices = high],
                                         pos, data, decision)} :
             /\ decision.sell
             /\ Commit(LogError(evaluated))
             /\ fired' = IF decision.level # 0
                         THEN [fired EXCEPT ![pos.symbol][decision.level] = @ + 1]
                         ELSE fired
             /\ dipped' = [dipped EXCEPT ![pos.symbol] =
                              @ \cup {l \in Levels : /\ fired[pos.symbol][l] > 0
                                                     /\ pos.pnl_percent < l}]
    /\ pc' = AfterError
    /\ UNCHANGED rsi_vars
    /\ UNCHANGED <<ticker, risk_vars, market_data, positions, idx, sold_symbols,
                   actions, can_trade, rotation, rotation_log, last_rotation_time,
                   market_regime, price_history, equity_history, running, clock,
                   cycles>>

\* step 6: get_balance raises, before any entry and before the snapshot
BalanceRaises ==
    /\ pc = "entry"
    /\ MayFail(Store)
    /\ Commit(LogError(Store))
    /\ pc' = AfterError
    /\ UNCHANGED rsi_vars
    /\ UNCHANGED <<ticker, risk_vars, history_vars, market_data, positions, idx,
                   sold_symbols, actions, can_trade, rotation, last_rotation_time,
                   market_regime, price_history, equity_history, running, clock,
                   cycles>>

(***************************************************************************)
(* The strategy loop: cycles of run_once, one after the other              *)
(***************************************************************************)
Next ==
    \/ \E sc \in Scenarios : RunOnceHalt(sc)
    \/ \E sc \in Scenarios : RunOnceBegin(sc)
    \/ \E fail \in BOOLEAN : CheckPosition(fail)
    \/ \E fail_sell, fail_buy \in BOOLEAN : Rotation(fail_sell, fail_buy)
    \/ \E fail \in BOOLEAN : Entry(fail)

\* the cycles of run_once, as long as no exchange call raises out of run_once
\* and no signal arrives
Spec == Init /\ [][Next]_vars

(***************************************************************************)
(* run_strategy_loop (run_aggressive_strategy.py, lines 92-132) with the   *)
(* signal handler (lines 29-33) and the calls that raise out of run_once   *)
(***************************************************************************)
\* SIGINT or SIGTERM arrives, at any point of the loop
signal_handler ==
    /\ pc # "stopped"
    /\ running
    /\ running' = FALSE
    /\ UNCHANGED rsi_vars
    /\ UNCHANGED <<exchange_vars, record_vars, risk_vars, local_vars, history_vars,
                   last_rotation_time, market_regime, price_history,
                   equity_history, pc, clock, cycles, failures, events>>

\* `while running` (line 92) is false: the loop ends and line 126 logs
\* STRATEGY_STOP
StrategyStop ==
    /\ pc = "idle"
    /\ ~LoopContinues(running)
    /\ pc' = "stopped"
    /\ events' = <<Event("LOG_STRATEGY_STOP", None, 0)>>
    /\ UNCHANGED rsi_vars
    /\ UNCHANGED <<exchange_vars, record_vars, risk_vars, local_vars, history_vars,
                   last_rotation_time, market_regime, price_history,
                   equity_history, running, clock, cycles, failures>>

\* one account and one equity file
LoopInit == Init /\ equity_history = <<100000, 100000>>

\* a quiet market and a falling one
LoopScenarios ==
    { Scenario(3, "BULL", 100, "STRONG", 100, "MID", 100, "WEAK"),
      Scenario(24, "BEAR", 80, "WEAK", 96, "WEAK", 100, "MID") }

\* what the process does when it is scheduled
LoopStep ==
    \/ \E sc \in LoopScenarios : RunOnceHalt(sc)
    \/ \E sc \in LoopScenarios : RunOnceBegin(sc)
    \/ \E fail \in BOOLEAN : CheckPosition(fail)
    \/ \E fail_sell, fail_buy \in BOOLEAN : Rotation(fail_sell, fail_buy)
    \/ \E fail \in BOOLEAN : Entry(fail)
    \/ SellLookupRaises
    \/ BalanceRaises
    \/ StrategyStop

LoopNext == LoopStep \/ signal_handler

\* the process is not suspended for ever
LoopSpec == LoopInit /\ [][LoopNext]_vars /\ WF_vars(LoopStep)

(***************************************************************************)
(* The cycles of run_once on an equity file one entry short of the cap of  *)
(* save_equity_snapshot                                                    *)
(***************************************************************************)
LongFile ==
    [i \in 1..1999 |-> IF i = 1 THEN 99000 ELSE IF i = 2 THEN 99500 ELSE 100000]

SnapshotInit == \E account \in Accounts : InitWith(Setup(account, LongFile))

SnapshotNext ==
    \/ \E sc \in LoopScenarios : RunOnceHalt(sc)
    \/ \E sc \in LoopScenarios : RunOnceBegin(sc)
    \/ \E fail \in BOOLEAN : CheckPosition(fail)
    \/ \E fail_sell, fail_buy \in BOOLEAN : Rotation(fail_sell, fail_buy)
    \/ \E fail \in BOOLEAN : Entry(fail)

SnapshotSpec == SnapshotInit /\ [][SnapshotNext]_vars

(***************************************************************************)
(* RSIMeanReversionStrategy (strategy.py).  Its parameters, lines 29-38:   *)
(* RSI_OVERSOLD is the 30 of the aggressive strategy as well; the          *)
(* percentages are in basis points, MAX_POSITION_USDT in cents.            *)
(***************************************************************************)
RSI_OVERBOUGHT == 70
MAX_POSITION_USDT == 1500
STOP_LOSS_PCT == 300
TAKE_PROFIT_PCT == 500
MAX_POSITIONS == 2

\* what the exchange shows at the start of a cycle of the RSI strategy: the
\* last prices and the RSI that calculate_rsi gives per symbol
RsiScenario(p1, r1, p2, r2, p3, r3) ==
    [px |-> [s \in Symbols |-> CASE s = "BTC/USDT" -> p1
                                 [] s = "SOL/USDT" -> p2
                                 [] s = "XRP/USDT" -> p3],
     rsi |-> [s \in Symbols |-> CASE s = "BTC/USDT" -> r1
                                  [] s = "SOL/USDT" -> r2
                                  [] s = "XRP/USDT" -> r3]]

RsiScenarios ==
    { RsiScenario(100, 25, 100, 28, 100, 20),
      RsiScenario(96, 75, 106, 75, 100, 50),
      RsiScenario(100, 75, 100, 25, 102, 72),
      RsiScenario(100, 50, 100, 50, 100, 50) }

\* lines 113-117
SignalOf(rsi) ==
    IF rsi < RSI_OVERSOLD THEN "BUY"
    ELSE IF rsi > RSI_OVERBOUGHT THEN "SELL"
    ELSE None

\* line 127: signals.sort(key=rsi); sort() is stable, so equal RSI keep
\* whitelist order
SortedByRsi(signals) ==
    LET before == [i \in 1..Len(signals) |->
                      Cardinality({j \in 1..Len(signals) :
                                      \/ signals[j].rsi < signals[i].rsi
                                      \/ signals[j].rsi = signals[i].rsi /\ j < i})]
    IN  [k \in 1..Len(signals) |->
            signals[CHOOSE i \in 1..Len(signals) : before[i] = k - 1]]

\* analyze_market (lines 93-133)
analyze_market(sc) ==
    [signals |-> SortedByRsi([i \in 1..Len(WHITELIST_SYMBOLS) |->
                                [symbol |-> WHITELIST_SYMBOLS[i],
                                 rsi |-> sc.rsi[WHITELIST_SYMBOLS[i]],
                                 price |-> sc.px[WHITELIST_SYMBOLS[i]],
                                 signal |-> SignalOf(sc.rsi[WHITELIST_SYMBOLS[i]])]]),
     rsi_data |-> sc.rsi]

\* check_stop_loss_take_profit (lines 135-148)
check_stop_loss_take_profit(position) ==
    IF position.pnl_percent <= -STOP_LOSS_PCT THEN "STOP_LOSS"
    ELSE IF position.pnl_percent >= TAKE_PROFIT_PCT THEN "TAKE_PROFIT"
    ELSE None

\* a should_buy without the limit on the number of positions
NoPositionLimit(held_positions) == FALSE

\* line 158: len(positions) >= MAX_POSITIONS
PositionLimitReached(held_positions) == Len(held_positions) >= MAX_POSITIONS

\* should_buy (lines 150-177), on the positions and the free USDT the
\* exchange reports when it is called
rsi_should_buy(signal, held_positions, usdt_free) ==
    /\ signal.signal = "BUY"
    /\ ~PositionLimitReached(held_positions)
    /\ \A i \in 1..Len(held_positions) :
          held_positions[i].currency # Currency(signal.symbol)
    /\ usdt_free >= MIN_ORDER_USDT

\* execute_sell (lines 212-235) with create_market_sell (exchange.py lines
\* 182-186): <<store, result>> with result "order" or None
rsi_execute_sell(st, symbol, amount, price, fail) ==
    LET submitted == Emit(st, "SELL_ORDER", symbol, amount)
        rejected == amount < MinOrderAmount \/ amount > st.balance[symbol]
    IN  IF fail \/ rejected
        THEN << Emit([submitted EXCEPT !.failures = IF fail THEN @ + 1 ELSE @],
                     "LOG_SELL_FAILED", symbol, amount),
                None >>
        ELSE << Emit([submitted EXCEPT !.balance[symbol] = @ - amount,
                                       !.usdt = @ + amount * price],
                     "LOG_SELL", symbol, amount),
                "order" >>

\* execute_buy (lines 179-210) with create_market_buy_usdt (exchange.py
\* lines 165-180): <<store, result>> with result "order" or None
rsi_execute_buy(st, symbol, usdt_amount, price, fail) ==
    LET capped == Min(usdt_amount, MAX_POSITION_USDT)
        amount == capped \div price
        submitted == Emit(st, "BUY_ORDER", symbol, capped)
        rejected == amount < MinOrderAmount \/ amount * price > st.usdt
        held == st.balance[symbol]
    IN  IF capped < MIN_ORDER_USDT THEN <<st, None>>
        ELSE IF fail \/ rejected
        THEN << Emit([submitted EXCEPT !.failures = IF fail THEN @ + 1 ELSE @],
                     "LOG_BUY_FAILED", symbol, capped),
                None >>
        ELSE << Emit([submitted EXCEPT
                         !.balance[symbol] = held + amount,
                         !.usdt = @ - amount * price,
                         !.avg_price[symbol] =
                             (held * st.avg_price[symbol] + amount * price)
                                 \div (held + amount)],
                     "LOG_BUY", symbol, capped),
                "order" >>

\* the symbols the strategy bought and still holds
StillHeld(symbols, bal) == {s \in symbols : bal[s] > 0}

\* run_once, steps 1-2 (lines 254-267): the analysis and the positions
RsiBegin(sc) ==
    /\ pc = "rsi_idle"
    /\ cycles < MaxCycles
    /\ analysis' = analyze_market(sc)
    /\ ticker' = sc.px
    /\ positions' = get_all_positions(balance, avg_price, ticker')
    /\ idx' = 1
    /\ sold_symbols' = {}
    /\ actions' = <<>>
    /\ events' = <<>>
    /\ cycles' = cycles + 1
    /\ pc' = IF positions' = <<>> THEN "rsi_buys" ELSE "rsi_stops"
    /\ UNCHANGED <<balance, avg_price, usdt, record_vars, risk_vars,
                   history_vars, market_data, can_trade, rotation,
                   last_rotation_time, market_regime, price_history,
                   equity_history, running, clock, failures, opened>>

\* run_once, step 2 (lines 271-288): one iteration of the loop that checks
\* the stop loss and the take profit
RsiCheckStops(fail) ==
    /\ pc = "rsi_stops"
    /\ fail => MayFail(Store)
    /\ \E pos \in {positions[idx]} :
       \E action \in {check_stop_loss_take_profit(pos)} :
          IF action = None
          THEN /\ ~fail
               /\ UNCHANGED <<exchange_vars, record_vars, failures, events,
                              sold_symbols, actions, opened>>
          ELSE
          \E sold \in {rsi_execute_sell(Store, pos.symbol, pos.amount,
                                        ticker[pos.symbol], fail)} :
             /\ Commit(sold[1])
             /\ ticker' = ticker
             /\ actions' = IF SellSucceeded(sold[2])
                           THEN Append(actions, Event(action, pos.symbol, 0))
                           ELSE actions
             /\ sold_symbols' = IF SellSucceeded(sold[2])
                                THEN sold_symbols \cup {pos.symbol}
                                ELSE sold_symbols
             /\ opened' = StillHeld(opened, sold[1].balance)
    /\ idx' = IF idx = Len(positions) THEN 1 ELSE idx + 1
    /\ pc' = IF idx = Len(positions) THEN "rsi_signals" ELSE "rsi_stops"
    /\ UNCHANGED <<risk_vars, history_vars, market_data, positions, can_trade,
                   rotation, last_rotation_time, market_regime, price_history,
                   equity_history, running, clock, cycles, analysis>>

\* a step 3 that goes through every position again
NeverSkipped(sold, symbol) == FALSE

\* lines 292-293: step 3 skips what step 2 sold
Skipped(sold, symbol) == symbol \in sold

\* run_once, step 3 (lines 291-299): one iteration of the loop that sells
\* on the RSI signal
RsiSignalSell(fail) ==
    /\ pc = "rsi_signals"
    /\ fail => MayFail(Store)
    /\ \E pos \in {positions[idx]} :
          IF \/ Skipped(sold_symbols, pos.symbol)
             \/ ~(analysis.rsi_data[pos.symbol] > RSI_OVERBOUGHT)
          THEN /\ ~fail
               /\ UNCHANGED <<exchange_vars, record_vars, failures, events,
                              actions, opened>>
          ELSE
          \E sold \in {rsi_execute_sell(Store, pos.symbol, pos.amount,
                                        ticker[pos.symbol], fail)} :
             /\ Commit(sold[1])
             /\ ticker' = ticker
             /\ actions' = IF SellSucceeded(sold[2])
                           THEN Append(actions, Event("RSI_SELL", pos.symbol, 0))
                           ELSE actions
             /\ opened' = StillHeld(opened, sold[1].balance)
    /\ idx' = IF idx = Len(positions) THEN 1 ELSE idx + 1
    /\ pc' = IF idx = Len(positions) THEN "rsi_buys" ELSE "rsi_signals"
    /\ UNCHANGED <<risk_vars, history_vars, market_data, positions,
                   sold_symbols, can_trade, rotation, last_rotation_time,
                   market_regime, price_history, equity_history, running, clock,
                   cycles, analysis>>

\* a step 4 that looks at every signal, whatever it bought
KeepsBuying(result) == FALSE

\* lines 310-312: the first order that goes through ends the loop
BreaksAfter(result) == result # None

\* line 315-320: a cycle without actions logs HOLD
LogHold(st, acts) == IF acts = <<>> THEN Emit(st, "LOG_HOLD", None, 0) ELSE st

\* run_once, steps 4-5 (lines 302-325): one iteration of the loop over the
\* signals, and the end of the cycle after the last one
RsiBuy(fail) ==
    /\ pc = "rsi_buys"
    /\ fail => MayFail(Store)
    /\ \E sig \in {analysis.signals[idx]} :
       \E looked \in {Emit(Store, "SHOULD_BUY", sig.symbol,
                           Len(get_all_positions(balance, avg_price, ticker)))} :
       \E buy_amount \in {Min(MAX_POSITION_USDT, (usdt * 9) \div 10)} :
       \E bought \in
           {IF /\ rsi_should_buy(sig, get_all_positions(balance, avg_price, ticker),
                                 usdt)
               /\ buy_amount >= 500
            THEN rsi_execute_buy(looked, sig.symbol, buy_amount,
                                 ticker[sig.symbol], fail)
            ELSE <<looked, "skip">>} :
       \E acts \in {IF bought[2] = "order"
                    THEN Append(actions, Event("RSI_BUY", sig.symbol, 0))
                    ELSE actions} :
       \E over \in {\/ bought[2] = "order" /\ BreaksAfter(bought[2])
                    \/ idx = Len(analysis.signals)} :
          /\ bought[2] = "skip" => ~fail
          /\ fail => bought[1].failures = failures + 1
          /\ Commit(IF over THEN LogHold(bought[1], acts) ELSE bought[1])
          /\ actions' = acts
          /\ opened' = IF bought[2] = "order" THEN opened \cup {sig.symbol}
                       ELSE opened
          /\ idx' = IF over THEN 1 ELSE idx + 1
          /\ pc' = IF over THEN "rsi_idle" ELSE "rsi_buys"
    /\ UNCHANGED <<ticker, risk_vars, history_vars, market_data, positions,
                   sold_symbols, can_trade, rotation, last_rotation_time,
                   market_regime, price_history, equity_history, running, clock,
                   cycles, analysis>>

\* an exchange call of steps 4-5 that no execute_* wraps raises
\* (get_all_positions, get_usdt_balance or get_min_order_usdt in should_buy,
\* get_balance at line 323): the except of line 329 logs ERROR and run_once
\* returns
RsiRaises ==
    /\ pc = "rsi_buys"
    /\ MayFail(Store)
    /\ Commit(LogError(Store))
    /\ idx' = 1
    /\ pc' = "rsi_idle"
    /\ UNCHANGED <<ticker, risk_vars, history_vars, market_data, positions,
                   sold_symbols, actions, can_trade, rotation,
                   last_rotation_time, market_regime, price_history,
                   equity_history, running, clock, cycles, rsi_vars>>

\* the strategy object after __init__ (lines 89-91), between two cycles of
\* the loop of run_strategy.py (line 75)
RsiInit == \E account \in Accounts : InitAt(Setup(account, <<>>), "rsi_idle")

RsiNext ==
    \/ \E sc \in RsiScenarios : RsiBegin(sc)
    \/ \E fail \in BOOLEAN : RsiCheckStops(fail)
    \/ \E fail \in BOOLEAN : RsiSignalSell(fail)
    \/ \E fail \in BOOLEAN : RsiBuy(fail)
    \/ RsiRaises

\* the cycles of RSIMeanReversionStrategy.run_once
RsiSpec == RsiInit /\ [][RsiNext]_vars

(***************************************************************************)
(* should_sell on its own: one position of BTC/USDT, opened by execute_buy  *)
(* or held when the strategy is constructed, is evaluated again and again  *)
(* at prices, indicators, regimes and times drawn from small sets.  The    *)
(* caller's order is left out: the position stays open, as it does when    *)
(* the sell order fails.                                                   *)
(***************************************************************************)
EvalPrices == {97, 99, 104, 106, 113}
EvalIndicators == {"MID", "WEAK"}
EvalHours == {3, 24}
EvalRegimes == {"BULL", "BEAR"}

\* the market as get_market_data sees it at one evaluation
EvalScenario(dt, regime, price, ind) ==
    Scenario(dt, regime, price, ind, 100, "MID", 100, "MID")

\* execute_buy opens the position at 100, with the ATR of the bundle
OpenPosition(ind) ==
    /\ pc = "execute_buy"
    /\ \E data \in {get_market_data("BTC/USDT", EvalScenario(0, "BULL", 100, ind))} :
       \E bought \in {execute_buy(Store, "BTC/USDT", 30000, data, ticker["BTC/USDT"],
                                  clock, FALSE)} :
          Commit(bought[1])
    /\ pc' = "should_sell"
    /\ UNCHANGED <<ticker, risk_vars, local_vars, history_vars, rsi_vars,
                   last_rotation_time, market_regime, price_history,
                   equity_history, running, clock, cycles>>

\* one call of should_sell (lines 825-908) with its side effects.  events
\* ends with what it returned; actions holds what the evaluations returned
\* since the P&L was last under AGGRESSIVE_TAKE_PROFIT_PCT.
EvaluateSell(dt, regime, price, ind) ==
    /\ pc = "should_sell"
    /\ cycles < MaxEvaluations
    /\ \E sc \in {EvalScenario(dt, regime, price, ind)} :
       \E now \in {clock + dt} :
       \E tick \in {[ticker EXCEPT !["BTC/USDT"] = price]} :
       \E pos \in {get_position("BTC/USDT", balance, avg_price, tick)} :
       \E data \in {get_market_data("BTC/USDT", sc)} :
       \E high \in {UpdateHigh(position_high_prices, pos.symbol, data.price)} :
       \E decision \in {should_sell(data, pos, position_atr, high,
                                    position_entry_times, position_partial_sells,
                                    regime, now)} :
       \E evaluated \in {EvaluateExit([Store EXCEPT !.position_high_prices = high,
                                                    !.events = <<>>],
                                      pos, data, decision)} :
          /\ Commit(Emit(evaluated, decision.reason, pos.symbol, decision.portion))
          /\ clock' = now
          /\ ticker' = tick
          /\ market_regime' = regime
          /\ market_data' = [s \in {pos.symbol} |-> data]
          /\ positions' = <<pos>>
          /\ actions' = IF pos.pnl_percent >= AGGRESSIVE_TAKE_PROFIT_PCT
                        THEN Append(actions, Event(decision.reason, pos.symbol,
                                                   decision.portion))
                        ELSE <<>>
          /\ fired' = IF decision.level # 0
                      THEN [fired EXCEPT ![pos.symbol][decision.level] = @ + 1]
                      ELSE fired
    /\ cycles' = cycles + 1
    /\ UNCHANGED <<risk_vars, rsi_vars, idx, sold_symbols, can_trade, rotation,
                   dipped, rotation_log, last_rotation_time, price_history,
                   equity_history, running, pc>>

\* the position is about to be bought by this strategy object, or it was
\* held when the object was constructed and has no record
SellInit ==
    \/ InitAt(Setup(Account(100000, 0, 0, 0), <<>>), "execute_buy")
    \/ InitAt(Setup(Account(40000, 300, 0, 0), <<>>), "should_sell")

SellNext ==
    \/ \E ind \in {"MID", "GOOD"} : OpenPosition(ind)
    \/ \E dt \in EvalHours, regime \in EvalRegimes, price \in EvalPrices,
          ind \in EvalIndicators : EvaluateSell(dt, regime, price, ind)

SellSpec == SellInit /\ [][SellNext]_vars

(***************************************************************************)
(* execute_sell and execute_buy on their own: called one after the other   *)
(* with symbols, quantities and amounts drawn from small sets, on an       *)
(* account that is empty or holds positions at construction.  events holds *)
(* what the last call logged and submitted; actions holds the call and     *)
(* what it returned.                                                       *)
(***************************************************************************)
OrderSymbols == {"BTC/USDT", "SOL/USDT"}
SellAmounts == {5, 9, 30}
BuyAmounts == {499, 3000}

\* the market data execute_buy is given
OrderData(symbol) == get_market_data(symbol, EvalScenario(0, "BULL", 100, "MID"))

ExecuteSell(symbol, amount, is_full_exit, fail) ==
    /\ pc = "execute"
    /\ cycles < MaxEvaluations
    /\ fail => MayFail(Store)
    /\ \E sold \in {execute_sell([Store EXCEPT !.events = <<>>], symbol, amount,
                                 ticker[symbol], is_full_exit, fail)} :
          /\ Commit(sold[1])
          /\ actions' = <<Event("execute_sell", symbol, amount),
                          Event(sold[2], symbol, 0)>>
    /\ cycles' = cycles + 1
    /\ UNCHANGED <<ticker, risk_vars, rsi_vars, history_vars, market_data,
                   positions, idx, sold_symbols, can_trade, rotation,
                   last_rotation_time, market_regime, price_history,
                   equity_history, running, pc, clock>>

ExecuteBuy(symbol, usdt_amount, fail) ==
    /\ pc = "execute"
    /\ cycles < MaxEvaluations
    /\ fail => MayFail(Store)
    /\ \E bought \in {execute_buy([Store EXCEPT !.events = <<>>], symbol,
                                  usdt_amount, OrderData(symbol), ticker[symbol],
                                  clock, fail)} :
          /\ Commit(bought[1])
          /\ actions' = <<Event("execute_buy", symbol, usdt_amount),
                          Event(bought[2], symbol, 0)>>
    /\ cycles' = cycles + 1
    /\ UNCHANGED <<ticker, risk_vars, rsi_vars, history_vars, market_data,
                   positions, idx, sold_symbols, can_trade, rotation,
                   last_rotation_time, market_regime, price_history,
                   equity_history, running, pc, clock>>

ExecuteInit ==
    \E account \in {Account(100000, 0, 0, 0), Account(69500, 300, 5, 0)} :
        InitAt(Setup(account, <<>>), "execute")

ExecuteNext ==
    \/ \E symbol \in OrderSymbols, amount \in SellAmounts,
          is_full_exit, fail \in BOOLEAN :
            ExecuteSell(symbol, amount, is_full_exit, fail)
    \/ \E symbol \in OrderSymbols, usdt_amount \in BuyAmounts, fail \in BOOLEAN :
            ExecuteBuy(symbol, usdt_amount, fail)

(***************************************************************************)
(* RiskManager (risk_manager.py).  Its equity history keeps the timestamp  *)
(* of every snapshot, which calculate_daily_pnl reads: an entry is a       *)
(* record [timestamp, total_value], the time in hours, the value in whole  *)
(* dollars.                                                                *)
(***************************************************************************)
\* self.MAX_DRAWDOWN and self.DAILY_LOSS_LIMIT, in basis points
MAX_DRAWDOWN == 1500
DAILY_LOSS_LIMIT == 300

Snapshot(timestamp, total_value) ==
    [timestamp |-> timestamp, total_value |-> total_value]

TotalValues(history) == [i \in 1..Len(history) |-> history[i].total_value]

\* calculate_current_drawdown (lines 302-319) compared with a share num/den
\* of MAX_DRAWDOWN: drawdown > MAX_DRAWDOWN * num / den
DrawdownOver(history, num, den) ==
    /\ Len(history) >= 2
    /\ LET current_value == history[Len(history)].total_value
           peak_value == SeqMax(TotalValues(history))
       IN  /\ peak_value > 0
           /\ (peak_value - current_value) * 10000 * den
                  > MAX_DRAWDOWN * num * peak_value

\* lines 335-338: the index of the latest snapshot before the last one that
\* is 24 hours old or older, 0 if there is none
DayAgoIndex(history, now) ==
    LET old == {i \in 1..(Len(history) - 1) : history[i].timestamp <= now - 24}
    IN  IF old = {} THEN 0 ELSE CHOOSE i \in old : \A j \in old : j <= i

\* calculate_daily_pnl (lines 321-346) compared with a share num/den of the
\* limit: daily_pnl < -DAILY_LOSS_LIMIT * num / den
DailyLossOver(history, now, num, den) ==
    /\ Len(history) >= 2
    /\ DayAgoIndex(history, now) # 0
    /\ LET current_value == history[Len(history)].total_value
           old_value == history[DayAgoIndex(history, now)].total_value
       IN  /\ old_value > 0
           /\ (current_value - old_value) * 10000 * den
                  < -(DAILY_LOSS_LIMIT * num * old_value)

\* a DEFENSIVE tier that starts at the drawdown limit itself
DefensiveAtLimit(history) == DrawdownOver(history, 1, 1)

\* line 359: drawdown > self.MAX_DRAWDOWN * 0.8
DefensiveDrawdown(history) == DrawdownOver(history, 4, 5)

\* assess_risk_level (lines 348-370)
assess_risk_level(history, now) ==
    IF DefensiveDrawdown(history) \/ DailyLossOver(history, now, 1, 1)
    THEN "DEFENSIVE"
    ELSE IF DrawdownOver(history, 1, 2) \/ DailyLossOver(history, now, 1, 2)
    THEN "CAUTIOUS"
    ELSE "NORMAL"

\* get_position_size_multiplier (lines 372-387), in tenths
get_position_size_multiplier(history, now) ==
    LET risk_level == assess_risk_level(history, now)
    IN  CASE risk_level = "NORMAL" -> 10
          [] risk_level = "CAUTIOUS" -> 5
          [] risk_level = "DEFENSIVE" -> 2

\* should_stop_trading (lines 477-498)
should_stop_trading(history, now) ==
    IF DrawdownOver(history, 1, 1) THEN TRUE
    ELSE IF DailyLossOver(history, now, 1, 1) THEN TRUE
    ELSE FALSE

\* the histories the functions are applied to: none, one, two or three
\* snapshots, the first at hour 0, the last at hour 50
RiskValues == {0, 840, 880, 920, 960, 980, 1000}
RiskTimes == {20, 40}
RiskHistories ==
    {<<>>}
    \cup {<<Snapshot(50, v)>> : v \in RiskValues}
    \cup {<<Snapshot(0, v1), Snapshot(50, v2)>> : v1, v2 \in RiskValues}
    \cup {<<Snapshot(0, v1), Snapshot(t, v2), Snapshot(50, v3)>> :
             v1, v2, v3 \in RiskValues, t \in RiskTimes}

\* the three functions applied to one history at one time; events holds
\* what they returned
AssessRisk(history, now) ==
    /\ pc = "assess_risk_level"
    /\ equity_history' = history
    /\ clock' = now
    /\ events' = <<Event("assess_risk_level", assess_risk_level(history, now),
                         get_position_size_multiplier(history, now)),
                   Event("should_stop_trading", None,
                         IF should_stop_trading(history, now) THEN 1 ELSE 0)>>
    /\ pc' = "assessed"
    /\ UNCHANGED <<exchange_vars, record_vars, risk_vars, rsi_vars, history_vars,
                   local_vars, last_rotation_time, market_regime, price_history,
                   running, cycles, failures>>

RiskInit == InitAt(Setup(Account(100000, 0, 0, 0), <<>>), "assess_risk_level")

RiskNext == \E history \in RiskHistories, now \in {50, 60} : AssessRisk(history, now)

RiskSpec == RiskInit /\ [][RiskNext]_vars

(***************************************************************************)
(* calculate_position_size on its own, called once with a bundle, free     *)
(* capital, total equity and a regime drawn from small sets.  The inputs   *)
(* are where run_once has them (market_data, usdt, the ENTRY event,        *)
(* market_regime); actions holds what the call returned.                   *)
(***************************************************************************)
SizeIndicators == {"STRONG", "GOOD", "MID", "WEAK", "TOPPY"}
SizePrices == {50, 100}
SizeRegimes == {"BULL", "NEUTRAL", "BEAR"}
SizeFree == {0, 500, 631, 632, 3000, 100000}
SizeTotals == {0, 1900, 3000, 100000}

\* the bundle of get_market_data, or the same with an ATR of zero
SizeData(ind, price, flat) ==
    LET data == get_market_data("BTC/USDT", EvalScenario(0, "BULL", price, ind))
    IN  IF flat THEN [data EXCEPT !.atr = 0, !.atr_pct = 0] ELSE data

CalculateSize(ind, price, flat, regime, available_usdt, total_value) ==
    /\ pc = "calculate_position_size"
    /\ \E data \in {SizeData(ind, price, flat)} :
       \E position_size \in {calculate_position_size(data, available_usdt,
                                                    total_value, regime)} :
          /\ market_data' = [s \in {data.symbol} |-> data]
          /\ actions' = <<Event("position_size", data.symbol, position_size)>>
    /\ usdt' = available_usdt
    /\ market_regime' = regime
    /\ events' = <<Event("ENTRY", None, total_value)>>
    /\ pc' = "sized"
    /\ UNCHANGED <<balance, avg_price, ticker, record_vars, risk_vars, rsi_vars,
                   history_vars, positions, idx, sold_symbols, can_trade, rotation,
                   last_rotation_time, price_history, equity_history, running,
                   clock, cycles, failures>>

SizeInit == InitAt(Setup(Account(100000, 0, 0, 0), <<>>), "calculate_position_size")

SizeNext ==
    \E ind \in SizeIndicators, price \in SizePrices, flat \in BOOLEAN,
       regime \in SizeRegimes, available_usdt \in SizeFree,
       total_value \in SizeTotals :
          CalculateSize(ind, price, flat, regime, available_usdt, total_value)

SizeSpec == SizeInit /\ [][SizeNext]_vars

\* the cycles of run_once, or the order functions on their own
OrdersInit == Init \/ ExecuteInit

OrdersNext == Next \/ ExecuteNext

OrdersSpec == OrdersInit /\ [][OrdersNext]_vars

(***************************************************************************)
(* The cycles of run_once in markets where the price series of two or      *)
(* three symbols move together: the correlation filter of should_buy has   *)
(* something to reject.                                                    *)
(***************************************************************************)
CorrelationScenarios ==
    { Scenario(3, "BULL", 100, "STRONG", 100, "GOOD", 100, "WEAK"),
      Scenario(3, "BULL", 100, "MID", 100, "STRONG", 100, "GOOD"),
      Scenario(3, "BULL", 100, "MID", 100, "TOPPY", 100, "GOOD") }

CorrelationInit == InitWith(Setup(Account(40000, 300, 0, 0), <<>>))

CorrelationNext ==
    \/ \E sc \in CorrelationScenarios : RunOnceBegin(sc)
    \/ \E fail \in BOOLEAN : CheckPosition(fail)
    \/ \E fail_sell, fail_buy \in BOOLEAN : Rotation(fail_sell, fail_buy)
    \/ \E fail \in BOOLEAN : Entry(fail)

CorrelationSpec == CorrelationInit /\ [][CorrelationNext]_vars

(***************************************************************************)
(* Either strategy: the process constructs one of the two strategy objects *)
(* and runs its cycles                                                     *)
(***************************************************************************)
StrategiesInit == Init \/ RsiInit

StrategiesNext == Next \/ RsiNext

StrategiesSpec == StrategiesInit /\ [][StrategiesNext]_vars

(***************************************************************************)
(* Properties                                                              *)
(***************************************************************************)
\* the positions in events (the current cycle) of the events of one type
EventsOf(type) == {i \in 1..Len(events) : events[i].type = type}

\* the events the step under consideration adds
NewEvents ==
    IF cycles' # cycles \/ pc' = "stopped" THEN events'
    ELSE SubSeq(events', Len(events) + 1, Len(events'))

\* the positions check_rotation was given in the current cycle
RotationInput == Remaining(positions, sold_symbols \ {rotation.sell_symbol})

\* C1: in a cycle that check_risk_limits halted (can_trade false), no buy
\* order reaches the exchange and no BUY or ROTATION_BUY action is reported.
C1_HaltBlocksBuys ==
    ~can_trade =>
        /\ EventsOf("BUY_ORDER") = {}
        /\ \A i \in 1..Len(actions) : actions[i].type \notin {"BUY", "ROTATION_BUY"}

\* a halt that follows from the snapshots of earlier cycles, with free USDT an
\* entry could have spent
C1_Witness ==
    /\ ~can_trade
    /\ cycles >= 2
    /\ equity_history \notin EquityFiles
    /\ usdt >= MIN_TRADE_USDT

\* C2: in every cycle the risk check is the first thing that happens; every
\* should_sell evaluation and every sell order precedes every should_buy
\* evaluation, and when should_buy is first evaluated every position open at
\* the start of the cycle (that has market data) has been through should_sell.
C2_ExitsBeforeEntries ==
    /\ events # <<>> => events[1].type = "RISK_CHECK"
    /\ \A i \in EventsOf("RISK_CHECK") : i = 1
    /\ \A b \in EventsOf("SHOULD_BUY") :
          /\ \A e \in EventsOf("SHOULD_SELL") \cup EventsOf("SELL_ORDER") : e < b
          /\ \A k \in 1..Len(positions) :
                positions[k].symbol \in DOMAIN market_data
                    => \E e \in EventsOf("SHOULD_SELL") :
                          e < b /\ events[e].symbol = positions[k].symbol

\* a cycle with two open positions, a sell order and an entry evaluation
C2_Witness ==
    /\ Len(positions) >= 2
    /\ EventsOf("SELL_ORDER") # {}
    /\ EventsOf("SHOULD_BUY") # {}

\* C3: while a position lives, should_sell returns PARTIAL_PROFIT for each
\* level of PARTIAL_PROFIT_LEVELS at most once.
C3_LevelOnce == \A s \in Symbols, l \in Levels : fired[s][l] <= 1

\* a level that fired once, then saw the P&L below it, and is now evaluated
\* with the P&L at or above it again without firing
C3_Witness ==
    \E s \in Symbols, l \in Levels :
        /\ fired[s][l] = 1
        /\ l \in dipped[s]
        /\ \E k \in 1..Len(positions) :
              positions[k].symbol = s /\ positions[k].pnl_percent >= l
        /\ \E i \in EventsOf("SHOULD_SELL") : events[i].symbol = s
        /\ \A i \in EventsOf("PARTIAL_PROFIT") :
              ~(events[i].symbol = s /\ events[i].amount = l)

\* a position this instance bought, one level fired, evaluated again with the
\* P&L at or above the level without firing
C3_BoughtWitness ==
    \E s \in DOMAIN position_entry_times, l \in Levels :
        /\ fired[s][l] = 1
        /\ \E k \in 1..Len(positions) :
              positions[k].symbol = s /\ positions[k].pnl_percent >= l
        /\ \E i \in EventsOf("SHOULD_SELL") : events[i].symbol = s
        /\ \A i \in EventsOf("PARTIAL_PROFIT") :
              ~(events[i].symbol = s /\ events[i].amount = l)

\* C4: a step that does not open the position never lowers
\* position_high_prices[symbol], and after a step that evaluated should_sell
\* for the symbol the mark, if the record is still there, is at least the
\* price that evaluation saw.
C4_Step ==
    \A s \in Symbols :
        LET bought == \E i \in 1..Len(NewEvents) :
                         NewEvents[i].type = "LOG_BUY" /\ NewEvents[i].symbol = s
            evaluated == \E i \in 1..Len(NewEvents) :
                            NewEvents[i].type = "SHOULD_SELL" /\ NewEvents[i].symbol = s
        IN  /\ (/\ s \in DOMAIN position_high_prices
                /\ s \in DOMAIN position_high_prices'
                /\ ~bought)
                  => position_high_prices'[s] >= position_high_prices[s]
            /\ (evaluated /\ s \in DOMAIN position_high_prices')
                  => position_high_prices'[s] >= market_data[s].price

C4_HighWaterMark == [][C4_Step]_vars

\* a position after a partial sell, evaluated at a price below its mark
C4_Witness ==
    \E s \in (DOMAIN position_high_prices) \cap (DOMAIN market_data) :
        /\ position_high_prices[s] > market_data[s].price
        /\ s \in DOMAIN position_partial_sells
        /\ position_partial_sells[s] # {}
        /\ \E i \in EventsOf("SHOULD_SELL") : events[i].symbol = s

\* C5: after a regular entry the positions still held plus the amount of the
\* buy are at most MAX_TOTAL_POSITION_PCT of the total value.
C5_ExposureBound ==
    \A e \in EventsOf("ENTRY"), b \in EventsOf("BUY_ORDER") :
        e < b =>
            (PositionValue(Remaining(positions, sold_symbols)) + events[b].amount) * 100
                <= MAX_TOTAL_POSITION_PCT * events[e].amount

\* C6: in a halted cycle every open position is still evaluated by
\* should_sell.
C6_HaltedExits ==
    (~can_trade /\ events # <<>>) =>
        \A s \in Symbols :
            balance[s] > 0 => \E i \in EventsOf("SHOULD_SELL") : events[i].symbol = s

\* C7: within one cycle an instrument receives at most one buy order, and
\* none while it has an open position.
C7_OneBuyPerInstrument ==
    \A i, j \in EventsOf("BUY_ORDER") :
        events[i].symbol = events[j].symbol => i = j

\* C8: a buy order of the rotation step follows the log of a successful sell
\* of the rotation's sell_symbol, with no failed or dust sell in between.
C8_BuyAfterSell ==
    \A c \in EventsOf("CHECK_ROTATION"), b \in EventsOf("BUY_ORDER") :
        (c < b /\ \A e \in EventsOf("ENTRY") : b < e) =>
            /\ \E k \in EventsOf("LOG_SELL") :
                  c < k /\ k < b /\ events[k].symbol = events[c].symbol
            /\ \A k \in EventsOf("LOG_SELL_FAILED") \cup EventsOf("LOG_DUST_POSITION") :
                  ~(c < k /\ k < b)

\* a rotation whose sell raised, the rotation step over, no buy order
C8_Witness ==
    /\ pc = "entry"
    /\ rotation # NoPlan
    /\ EventsOf("BUY_ORDER") = {}
    /\ \E c \in EventsOf("CHECK_ROTATION"), k \in EventsOf("LOG_SELL_FAILED") :
          c < k /\ events[k].symbol = rotation.sell_symbol

\* a rotation whose sell was rejected as dust, no buy order
C8_DustWitness ==
    /\ pc = "entry"
    /\ rotation # NoPlan
    /\ EventsOf("BUY_ORDER") = {}
    /\ \E c \in EventsOf("CHECK_ROTATION"), k \in EventsOf("LOG_DUST_POSITION") :
          c < k /\ events[k].symbol = rotation.sell_symbol

\* C9: two rotations whose sell order was submitted are at least
\* ROTATION_INTERVAL_HOURS apart.
C9_RotationCooldown ==
    \A i, j \in 1..Len(rotation_log) :
        (/\ i < j
         /\ rotation_log[i].outcome # "dust"
         /\ rotation_log[j].outcome # "dust")
            => rotation_log[j].time - rotation_log[i].time >= ROTATION_INTERVAL_HOURS

\* C10: a plan of check_rotation sells a held position that no other held
\* position with market data scores below and whose P&L is under 1%, buys a
\* symbol whose currency is not held, and the buy score exceeds the sell
\* score by more than MIN_ROTATION_IMPROVEMENT.
C10_RotationPlan ==
    rotation # NoPlan =>
        LET held == RotationInput
            sell_score == calculate_coin_score(market_data[rotation.sell_symbol])
            buy_score == calculate_coin_score(market_data[rotation.buy_symbol])
        IN  /\ \E k \in 1..Len(held) :
                  /\ held[k].symbol = rotation.sell_symbol
                  /\ held[k].pnl_percent < 100
            /\ \A k \in 1..Len(held) :
                  held[k].symbol \in DOMAIN market_data
                      => calculate_coin_score(market_data[held[k].symbol]) >= sell_score
            /\ \A k \in 1..Len(held) :
                  held[k].currency # Currency(rotation.buy_symbol)
            /\ buy_score > sell_score + MIN_ROTATION_IMPROVEMENT
            /\ rotation.sell_score = sell_score
            /\ rotation.buy_score = buy_score

\* a plan made with two held positions of different scores
C10_Witness ==
    /\ rotation # NoPlan
    /\ \E k \in 1..Len(RotationInput) :
          /\ RotationInput[k].symbol \in DOMAIN market_data
          /\ calculate_coin_score(market_data[RotationInput[k].symbol])
                > rotation.sell_score

\* the step under consideration adds an event of this type for this symbol
Logs(type, s) ==
    \E i \in 1..Len(NewEvents) : NewEvents[i].type = type /\ NewEvents[i].symbol = s

\* the record d holds the same for symbol s before and after the step
SameRecord(d, s) ==
    /\ (s \in DOMAIN d) <=> (s \in DOMAIN d')
    /\ s \in DOMAIN d => d'[s] = d[s]

\* C11: a step with a successful partial sell of a symbol leaves its entry
\* price, ATR and entry time as they were and its high-water mark and
\* triggered levels as should_sell left them; a record of a symbol disappears
\* only in a step with a successful full-exit sell of that symbol.
C11_Step ==
    \A s \in Symbols :
        /\ Logs("LOG_SELL_PARTIAL", s) =>
              /\ SameRecord(position_entry_prices, s)
              /\ SameRecord(position_atr, s)
              /\ SameRecord(position_entry_times, s)
              /\ position_high_prices' =
                    UpdateHigh(position_high_prices, s, market_data[s].price)
              /\ s \in DOMAIN position_partial_sells'
              /\ \A l \in Levels :
                    (s \in DOMAIN position_partial_sells
                        /\ l \in position_partial_sells[s])
                            => l \in position_partial_sells'[s]
        /\ (\/ s \in (DOMAIN position_entry_prices) \ DOMAIN position_entry_prices'
            \/ s \in (DOMAIN position_high_prices) \ DOMAIN position_high_prices'
            \/ s \in (DOMAIN position_atr) \ DOMAIN position_atr'
            \/ s \in (DOMAIN position_entry_times) \ DOMAIN position_entry_times'
            \/ s \in (DOMAIN position_partial_sells) \ DOMAIN position_partial_sells')
              => Logs("LOG_SELL", s)

C11_PartialSellFrame == [][C11_Step]_vars

\* a position this instance bought, after a successful partial sell
C11_Witness ==
    \E s \in DOMAIN position_entry_prices :
        /\ \E i \in EventsOf("LOG_SELL_PARTIAL") : events[i].symbol = s
        /\ s \in DOMAIN position_entry_times
        /\ s \in DOMAIN position_atr
        /\ position_partial_sells[s] # {}
        /\ balance[s] > 0

\* what should_sell is about to return for the position the loop stands at
NextDecision ==
    should_sell(market_data[positions[idx].symbol], positions[idx], position_atr,
                UpdateHigh(position_high_prices, positions[idx].symbol,
                           market_data[positions[idx].symbol].price),
                position_entry_times, position_partial_sells, market_regime, clock)

\* the ATR percentage should_sell works with (lines 838-839)
EntryAtrPct(pos) ==
    IF pos.avg_price > 0
    THEN ((IF pos.symbol \in DOMAIN position_atr THEN position_atr[pos.symbol]
           ELSE market_data[pos.symbol].atr) * 1000) \div pos.avg_price
    ELSE market_data[pos.symbol].atr_pct

\* C12: an evaluation of should_sell with the P&L at or below the dynamic
\* stop returns a full exit with reason STOP_LOSS and marks no ladder level;
\* every evaluated position with P&L <= -HARD_STOP_LOSS_PCT got a full exit.
C12_HardStop ==
    /\ (pc = "positions" /\ positions[idx].symbol \in DOMAIN market_data) =>
          LET pos == positions[idx]
              stop == IF EntryAtrPct(pos) * ATR_STOP_MULTIPLIER < HARD_STOP_LOSS_PCT
                      THEN EntryAtrPct(pos) * ATR_STOP_MULTIPLIER
                      ELSE HARD_STOP_LOSS_PCT
          IN  pos.pnl_percent <= -stop
                  => /\ NextDecision = Exit("STOP_LOSS", 100, 0)
                     /\ MarkLevel(position_partial_sells, pos.symbol,
                                  NextDecision.level) = position_partial_sells
    /\ \A i \in EventsOf("SHOULD_SELL"), k \in 1..Len(positions) :
          (/\ positions[k].symbol = events[i].symbol
           /\ positions[k].pnl_percent <= -HARD_STOP_LOSS_PCT)
              => /\ events[i].amount = 100
                 /\ \A j \in EventsOf("PARTIAL_PROFIT") :
                       events[j].symbol # events[i].symbol

\* a position whose loss is between the hard cap and twice its ATR
\* percentage, evaluated and given a full exit
C12_Witness ==
    \E i \in EventsOf("SHOULD_SELL"), k \in 1..Len(positions) :
        /\ positions[k].symbol = events[i].symbol
        /\ positions[k].pnl_percent <= -HARD_STOP_LOSS_PCT
        /\ positions[k].pnl_percent > -(2 * HARD_STOP_LOSS_PCT)
        /\ (market_data[positions[k].symbol].atr * 1000 * ATR_STOP_MULTIPLIER)
              \div positions[k].avg_price > -positions[k].pnl_percent
        /\ events[i].amount = 100

\* a position stopped by the ATR-adjusted stop above the hard cap
C12_AtrWitness ==
    \E i \in EventsOf("SHOULD_SELL"), k \in 1..Len(positions) :
        /\ positions[k].symbol = events[i].symbol
        /\ positions[k].pnl_percent < 0
        /\ positions[k].pnl_percent > -HARD_STOP_LOSS_PCT
        /\ events[i].amount = 100

\* the verdict of check_risk_limits in can_trade was reached on the equity
\* history as it stands: the cycle is under way, or it was halted
RiskChecked ==
    /\ events # <<>>
    /\ events[1].type = "RISK_CHECK"
    /\ pc \in {"positions", "rotation", "entry"} \/ ~can_trade

LatestEquity == equity_history[Len(equity_history)]

\* the latest equity is more than MAX_DRAWDOWN_PCT under the peak of the history
InDrawdown ==
    /\ SeqMax(equity_history) > 0
    /\ (SeqMax(equity_history) - LatestEquity) * 10000
           > MAX_DRAWDOWN_PCT * SeqMax(equity_history)

\* the latest equity is more than DAILY_LOSS_LIMIT_PCT under the equity the
\* day started with
InDailyLoss ==
    /\ daily_starting_value # NoValue
    /\ daily_starting_value > 0
    /\ (daily_starting_value - LatestEquity) * 10000
           > DAILY_LOSS_LIMIT_PCT * daily_starting_value

\* C13: check_risk_limits halts exactly when the equity history has at least
\* two entries and either the drawdown of the latest equity from the peak is
\* over MAX_DRAWDOWN_PCT or the loss since the day's starting equity is over
\* DAILY_LOSS_LIMIT_PCT; with fewer than two entries it allows trading.
C13_RiskHalt ==
    RiskChecked =>
        /\ ~can_trade <=> /\ Len(LoadHistory(equity_history)) >= 2
                          /\ InDrawdown \/ InDailyLoss
        /\ Len(LoadHistory(equity_history)) < 2 => can_trade

\* a halt on the loss of the day alone, the drawdown being within its limit
C13_Witness ==
    /\ RiskChecked
    /\ ~can_trade
    /\ ~InDrawdown
    /\ InDailyLoss
    /\ daily_start_date = clock \div 24

\* a halt on the drawdown
C13_DrawdownWitness == RiskChecked /\ ~can_trade /\ InDrawdown

\* a history of one entry, and trading allowed
C13_ShortWitness ==
    RiskChecked /\ equity_history # Unreadable /\ Len(equity_history) = 1 /\ can_trade

\* an unreadable file, and trading allowed
C13_UnreadableWitness == RiskChecked /\ equity_history = Unreadable /\ can_trade

\* what the account is worth at the prices the exchange shows now
AccountEquity == calculate_total_value_usdt(balance, usdt, ticker)

\* the account's equity is within MAX_DRAWDOWN_PCT of the peak of the history
Recovered ==
    (SeqMax(equity_history) - AccountEquity) * 10000
        <= MAX_DRAWDOWN_PCT * SeqMax(equity_history)

\* C14: a risk halt lasts only while its condition holds.  After a halt on
\* the drawdown, a cycle that starts when the account's equity is back within
\* the limit, and was so at the cycle before, is not halted.
C14_HaltEndsOnRecovery ==
    [][ ( /\ RiskChecked
          /\ ~can_trade
          /\ InDrawdown
          /\ Recovered
          /\ cycles' = cycles + 1
          /\ Recovered' ) => can_trade' ]_vars

\* what the code does instead: a halted cycle returns before the snapshot
\* of line 1270, the history check_risk_limits reads never changes, and
\* every later cycle is halted as well
C14_HaltIsPermanent ==
    [][ (RiskChecked /\ ~can_trade /\ InDrawdown /\ cycles' = cycles + 1)
            => (~can_trade' /\ equity_history' = equity_history) ]_vars

\* the steps of a cycle that got past the risk check
InCycle == pc \in {"positions", "rotation", "entry"}

\* C15: the failure of a single exchange call during a cycle is a skip:
\* run_once does not raise (no ERROR is logged for the cycle), the positions
\* loop goes on to the remaining positions, and the cycle ends with the
\* entries evaluated and the equity snapshot saved.
C15_FailureIsSkip ==
    [][ (InCycle /\ failures' <= 1) =>
            /\ \A i \in 1..Len(NewEvents) : NewEvents[i].type # "LOG_ERROR"
            /\ pc = "positions" => pc' \in {"positions", "rotation"}
            /\ pc' = "idle" =>
                   /\ Len(equity_history') = Len(equity_history) + 1
                   /\ \E i \in 1..Len(NewEvents) : NewEvents[i].type = "ENTRY" ]_vars

\* the part of the claim that holds: a failed order placement is a skip
C15_OrderFailureIsSkip ==
    [][ (InCycle /\ failures' = failures + 1
           /\ \E i \in 1..Len(NewEvents) :
                  NewEvents[i].type \in {"LOG_SELL_FAILED", "LOG_BUY_FAILED"})
        => /\ \A i \in 1..Len(NewEvents) : NewEvents[i].type # "LOG_ERROR"
           /\ pc = "positions" => pc' \in {"positions", "rotation"}
           /\ pc' = "idle" => Len(equity_history') = Len(equity_history) + 1 ]_vars

\* run_once raised: a cycle past the risk check ends without its snapshot
RunOnceRaised == InCycle /\ pc' \notin {"positions", "rotation", "entry"}
                         /\ equity_history' = equity_history

\* the loop is between two cycles and the last thing logged is the ERROR
AfterRaise ==
    /\ pc = "idle"
    /\ events # <<>>
    /\ events[Len(events)].type = "LOG_ERROR"

\* C16: when run_once raises, run_strategy_loop logs ERROR and goes on: the
\* loop is not ended by the exception (it ends only with the stop flag set),
\* and unless the stop flag is set another cycle starts.
C16_LoopSurvivesError ==
    /\ [][RunOnceRaised => (AfterRaise' /\ failures' = failures + 1)]_vars
    /\ [](pc = "stopped" => ~running)
    /\ \A k \in 0..(MaxCycles - 1) :
          (AfterRaise /\ cycles = k) ~> (cycles > k \/ ~running)

\* the first cycle raised at line 1217 (no snapshot was added to the two of
\* the equity file) and, the stop flag not set, a second cycle is under way
C16_Witness ==
    /\ cycles = 2
    /\ InCycle
    /\ running
    /\ failures = 1
    /\ Len(equity_history) = 2

\* C17: the stop flag is acted on between cycles only.  Once it is set no
\* further cycle starts; the loop ends only from between two cycles, with
\* the flag set, logging STRATEGY_STOP; a cycle under way when the flag is
\* set goes on step by step to its snapshot (unless an exchange call raises);
\* and once the flag is set the loop does end.
C17_StopBetweenCycles ==
    /\ [][~running => cycles' = cycles]_vars
    /\ [][(pc # "stopped" /\ pc' = "stopped") =>
              /\ pc = "idle"
              /\ ~running
              /\ events'[Len(events')].type = "LOG_STRATEGY_STOP"]_vars
    /\ [][(InCycle /\ ~running /\ ~RunOnceRaised) =>
              \/ InCycle' /\ <<pc, idx>>' # <<pc, idx>>
              \/ pc' = "idle" /\ Len(equity_history') = Len(equity_history) + 1]_vars
    /\ ~running ~> pc = "stopped"

\* the loop has ended after at least one cycle
C17_Witness ==
    /\ pc = "stopped"
    /\ ~running
    /\ cycles >= 1
    /\ events[Len(events)].type = "LOG_STRATEGY_STOP"

\* the flag was set before the positions loop was over, and the cycle has
\* gone on to its entries
C17_MidCycleWitness ==
    /\ ~running
    /\ pc = "entry"
    /\ positions # <<>>
    /\ \E i \in 1..Len(events) : events[i].type = "CHECK_ROTATION"

\* the entries of the equity file (none when it is missing or unreadable)
StoredHistory == LoadHistory(equity_history)

\* C18: every save_equity_snapshot call leaves the stored history equal to
\* the previous history followed by the new snapshot, cut to the latest 2000
\* entries: the new snapshot is last, the entries before it are the latest
\* entries of the previous history in their order, and none is dropped unless
\* the cap is reached.  Nothing else writes the equity file.
C18_Step ==
    IF pc = "entry" /\ pc' = "idle"
    THEN /\ Len(StoredHistory') = Min(Len(StoredHistory) + 1, 2000)
         /\ StoredHistory'[Len(StoredHistory')] = AccountEquity
         /\ \A i \in 1..(Len(StoredHistory') - 1) :
               StoredHistory'[i] =
                   StoredHistory[Len(StoredHistory) - (Len(StoredHistory') - 1) + i]
    ELSE equity_history' = equity_history

C18_AppendOnly == [][C18_Step]_vars

\* the cap was reached: the oldest entry of the file was dropped, the second
\* oldest is now the first
C18_Witness ==
    /\ Len(equity_history) = 2000
    /\ equity_history[1] = LongFile[2]
    /\ equity_history[1999] = LongFile[1999]
    /\ pc = "idle"
    /\ cycles >= 2

\* one entry was added under the cap
C18_UnderCapWitness ==
    /\ Len(equity_history) = 2000
    /\ equity_history[1] = LongFile[1]

\* the entry price of a held position: the one execute_buy recorded, else
\* the avg_price of the exchange, which is what should_sell takes (line 834)
EntryPrice(s) ==
    IF s \in DOMAIN position_entry_prices THEN position_entry_prices[s]
    ELSE avg_price[s]

\* C19: every held position with a high-water mark has the mark at or above
\* its entry price, and the entry price at or above 0, whether execute_buy
\* or the first should_sell evaluation created the mark.
C19_HighAboveEntry ==
    \A s \in Symbols :
        (balance[s] > 0 /\ s \in DOMAIN position_high_prices) =>
            /\ EntryPrice(s) >= 0
            /\ position_high_prices[s] >= EntryPrice(s)

\* the part that holds: a mark next to an entry price that execute_buy
\* recorded is at or above it
C19_BoughtHighAboveEntry ==
    \A s \in (DOMAIN position_high_prices) \cap (DOMAIN position_entry_prices) :
        /\ position_entry_prices[s] >= 0
        /\ position_high_prices[s] >= position_entry_prices[s]

\* the score lines 611-692 give each indicator bundle, worked out by hand,
\* in tenths of a point
ScoreOf(name) ==
    CASE name = "STRONG" -> 1010
      [] name = "GOOD" -> 430
      [] name = "MID" -> 240
      [] name = "WEAK" -> -195
      [] name = "TOPPY" -> 370

\* the name of the indicators in a bundle of get_market_data
BundleName(data) ==
    CHOOSE name \in IndicatorNames :
        \A f \in DOMAIN Indicators(name) : data[f] = Indicators(name)[f]

SellsDone == EventsOf("LOG_SELL") \cup EventsOf("LOG_SELL_PARTIAL")

\* C21: within one cycle, of either strategy, no sell order is submitted for
\* a position after a sell order for it has succeeded.
C21_SoldOnce ==
    \A i \in SellsDone, j \in EventsOf("SELL_ORDER") :
        i < j => events[j].symbol # events[i].symbol

\* the RSI strategy: step 2 sold a position whose RSI is above
\* RSI_OVERBOUGHT, and step 3 is over
C21_Witness ==
    /\ pc \in {"rsi_buys", "rsi_idle"}
    /\ \E i \in EventsOf("LOG_SELL") :
          /\ events[i].symbol \in sold_symbols
          /\ analysis.rsi_data[events[i].symbol] > RSI_OVERBOUGHT

\* the aggressive strategy: a sell of the positions loop went through, and
\* the rotation step of the same cycle submitted its sell order
C21_RotationWitness ==
    \E i \in SellsDone, c \in EventsOf("CHECK_ROTATION"), j \in EventsOf("SELL_ORDER") :
        i < c /\ c < j

\* the symbols the account holds
HeldSymbols == {s \in Symbols : balance[s] > 0}

\* C22: RSIMeanReversionStrategy submits a buy order only while fewer than
\* MAX_POSITIONS positions are held and only for a currency it does not
\* hold; at most one buy goes through per cycle; and the positions it bought
\* and still holds are never more than MAX_POSITIONS.
C22_PositionLimit ==
    /\ [][\A s \in Symbols :
             Logs("BUY_ORDER", s) =>
                 /\ Cardinality(HeldSymbols) < MAX_POSITIONS
                 /\ s \notin HeldSymbols]_vars
    /\ [](Cardinality(EventsOf("LOG_BUY")) <= 1)
    /\ [](Cardinality(opened) <= MAX_POSITIONS)

\* the strategy holds MAX_POSITIONS positions it bought, the cycle is over,
\* and a BUY signal for a currency it does not hold was turned down
C22_Witness ==
    /\ pc = "rsi_idle"
    /\ Cardinality(opened) = MAX_POSITIONS
    /\ EventsOf("BUY_ORDER") = {}
    /\ \E k \in 1..Len(analysis.signals) :
          /\ analysis.signals[k].signal = "BUY"
          /\ analysis.signals[k].symbol \notin HeldSymbols
          /\ \E i \in EventsOf("SHOULD_BUY") :
                events[i].symbol = analysis.signals[k].symbol

\* a cycle that bought, with a later BUY signal of the same cycle left alone
C22_OneBuyWitness ==
    /\ EventsOf("LOG_BUY") # {}
    /\ pc = "rsi_idle"
    /\ \E k \in 1..Len(analysis.signals) :
          /\ analysis.signals[k].signal = "BUY"
          /\ analysis.signals[k].symbol \notin HeldSymbols
          /\ Cardinality(HeldSymbols) < MAX_POSITIONS

\* should_sell has been evaluated on its own (SellSpec); what follows reads
\* the evaluation's inputs and its result from the state after it
Evaluated == pc = "should_sell" /\ positions # <<>>

\* what should_sell returned: type is the reason, amount the portion
Returned == events[Len(events)]

EvalPnl == positions[1].pnl_percent

\* the fall of the price from the high-water mark, in basis points
EvalRetracement ==
    LET high == position_high_prices[positions[1].symbol]
    IN  ((high - positions[1].current_price) * 10000) \div high

\* min(entry ATR percentage x TRAILING_STOP_ATR_MULT, 3%)
EvalTrailingDistance ==
    Min((EntryAtrPct(positions[1]) * TRAILING_STOP_ATR_MULT[1])
            \div TRAILING_STOP_ATR_MULT[2], TRAILING_CAP)

\* the hard stop applies
EvalHardStop ==
    EvalPnl <= -Min(EntryAtrPct(positions[1]) * ATR_STOP_MULTIPLIER, HARD_STOP_LOSS_PCT)

\* the hours since execute_buy recorded the entry (none recorded: NoValue)
EvalAge ==
    IF positions[1].symbol \in DOMAIN position_entry_times
    THEN clock - position_entry_times[positions[1].symbol]
    ELSE NoValue

\* the stale-position timeout applies
EvalStale ==
    /\ EvalAge # NoValue
    /\ EvalAge >= STALE_POSITION_HOURS
    /\ EvalPnl <= STALE_POSITION_MIN_LOSS

TriggeredBefore ==
    IF "BTC/USDT" \in DOMAIN position_partial_sells
    THEN position_partial_sells["BTC/USDT"] ELSE {}

\* the evaluation of this step finds a ladder level reached and not yet
\* triggered
LevelPending == \E l \in Levels : EvalPnl' >= l /\ l \notin TriggeredBefore

\* C23 amended: the same, provided no level of the partial-profit ladder is
\* reached that has not been triggered yet (the ladder, rule 3 of the exit
\* evaluation, goes before the trailing stop, rule 4).
C23_Step ==
    (cycles' = cycles + 1 /\ Evaluated') =>
        /\ (/\ EvalPnl' > MIN_TAKE_PROFIT_PCT
            /\ EvalRetracement' > EvalTrailingDistance'
            /\ ~EvalHardStop'
            /\ ~EvalStale'
            /\ ~LevelPending)
              => (Returned'.type = "TRAILING_STOP" /\ Returned'.amount = 100)
        /\ Returned'.type = "TRAILING_STOP" => EvalPnl' > MIN_TAKE_PROFIT_PCT

C23_UnarmedWitness ==
    /\ Evaluated
    /\ EvalPnl <= MIN_TAKE_PROFIT_PCT
    /\ EvalRetracement > EvalTrailingDistance
    /\ Returned.amount = 0

\* the number of levels of the ladder
NLevels == Len(PARTIAL_PROFIT_LEVELS)

\* C24: among any NLevels + 1 consecutive should_sell evaluations of an open
\* position with the P&L at or above AGGRESSIVE_TAKE_PROFIT_PCT at least one
\* returns a full exit, and once every level of the ladder has been
\* triggered every such evaluation returns a full exit.
C24_TakeProfitBounded ==
    /\ [](Evaluated =>
            \A k \in 1..(Len(actions) - NLevels) :
                \E j \in k..(k + NLevels) : actions[j].amount = 100)
    /\ [][(/\ cycles' = cycles + 1
           /\ Evaluated'
           /\ EvalPnl' >= AGGRESSIVE_TAKE_PROFIT_PCT
           /\ Levels \subseteq TriggeredBefore)
             => Returned'.amount = 100]_vars

\* NLevels evaluations at a P&L of 13% returned a partial exit each, one
\* level after the other, and the next one the full exit TAKE_PROFIT
C24_Witness ==
    /\ Evaluated
    /\ Len(actions) = NLevels + 1
    /\ \A j \in 1..NLevels :
          actions[j].type = "PARTIAL_PROFIT"
              /\ actions[j].amount = PARTIAL_PROFIT_LEVELS[j].portion
    /\ actions[NLevels + 1].type = "TAKE_PROFIT"
    /\ actions[NLevels + 1].amount = 100
    /\ EvalPnl >= AGGRESSIVE_TAKE_PROFIT_PCT

\* the age of the evaluated position in hours: the time since execute_buy
\* opened it, and for a position held when the strategy was constructed the
\* time since then, which is the least its age can be
PositionAge ==
    IF EvalAge # NoValue THEN EvalAge ELSE clock

\* C25: for an open position should_sell returns a full exit with reason
\* STALE_POSITION whenever the position's age is at least
\* STALE_POSITION_HOURS and its P&L is at or under STALE_POSITION_MIN_LOSS
\* but above the hard-stop level; it never returns STALE_POSITION for a
\* younger position or for a P&L above STALE_POSITION_MIN_LOSS.
C25_StaleTimeout ==
    Evaluated =>
        /\ (/\ PositionAge >= STALE_POSITION_HOURS
            /\ EvalPnl <= STALE_POSITION_MIN_LOSS
            /\ ~EvalHardStop)
              => (Returned.type = "STALE_POSITION" /\ Returned.amount = 100)
        /\ Returned.type = "STALE_POSITION" =>
              /\ PositionAge >= STALE_POSITION_HOURS
              /\ EvalPnl <= STALE_POSITION_MIN_LOSS

\* the same for the positions whose entry time execute_buy recorded
C25_RecordedStaleTimeout ==
    Evaluated =>
        /\ (EvalStale /\ ~EvalHardStop)
              => (Returned.type = "STALE_POSITION" /\ Returned.amount = 100)
        /\ Returned.type = "STALE_POSITION" => EvalStale

\* a position bought 48 hours ago or earlier, at a small loss above its
\* stop, exits as stale
C25_RecordedWitness ==
    /\ Evaluated
    /\ EvalStale
    /\ ~EvalHardStop
    /\ Returned.type = "STALE_POSITION"

\* a position held since construction, 48 hours ago or earlier, at a small
\* loss above its stop, with no exit returned
C25_UnrecordedWitness ==
    /\ Evaluated
    /\ EvalAge = NoValue
    /\ clock >= STALE_POSITION_HOURS
    /\ EvalPnl <= STALE_POSITION_MIN_LOSS
    /\ ~EvalHardStop
    /\ Returned.amount = 0

\* the step under consideration is the last of a cycle of run_once and
\* run_once returns from it: the halt of step 1 or the end of step 7
CycleReturns ==
    /\ pc' = "idle"
    /\ pc = "entry" \/ cycles' = cycles + 1
    /\ \A i \in 1..Len(NewEvents) : NewEvents[i].type # "LOG_ERROR"

\* the step under consideration appended one snapshot, the account's equity,
\* to the stored history
OneSnapshotAppended ==
    /\ Len(StoredHistory') = Min(Len(StoredHistory) + 1, 2000)
    /\ StoredHistory'[Len(StoredHistory')] = AccountEquity'

\* C26: every cycle of run_once that returns normally ends by appending
\* exactly one equity snapshot to the equity history, after all orders of
\* the cycle have been attempted: the step that ends the cycle appends the
\* snapshot.
C26_SnapshotEveryCycle == [][CycleReturns => OneSnapshotAppended]_vars

\* the same for the cycles that the risk check let pass
C26_SnapshotUnlessHalted ==
    [][(CycleReturns /\ can_trade') => OneSnapshotAppended]_vars

\* a cycle that bought has ended with the snapshot of the equity
C26_BoughtWitness ==
    /\ pc = "idle"
    /\ can_trade
    /\ cycles >= 1
    /\ \E i \in 1..Len(events) : events[i].type = "BUY_ORDER"
    /\ equity_history # Unreadable
    /\ equity_history[Len(equity_history)] = AccountEquity

\* the step under consideration starts a cycle of run_once, whose first
\* statement is the call of check_risk_limits (line 1133)
RiskCheckStep == cycles' = cycles + 1 /\ pc = "idle" /\ pc' # "stopped"

\* the date of the wall clock
Today == clock \div 24

\* C27: the daily baseline (daily_starting_value, daily_start_date) changes
\* only in a check_risk_limits call whose wall-clock date differs from the
\* stored date, and then it becomes the latest equity and today's date; in
\* every other call, and in every step that is no such call, it is
\* unchanged, so a check made on the date of the stored baseline leaves it
\* as the earlier checks of that day had it.
C27_Step ==
    /\ <<daily_starting_value, daily_start_date>>'
            # <<daily_starting_value, daily_start_date>>
         => /\ RiskCheckStep
            /\ daily_start_date # Today'
            /\ daily_start_date' = Today'
            /\ daily_starting_value' = LatestEquity
    /\ (RiskCheckStep /\ daily_start_date = Today')
         => /\ daily_starting_value' = daily_starting_value
            /\ daily_start_date' = daily_start_date

C27_DailyBaseline == [][C27_Step]_vars

\* a check on the date of the stored baseline, the latest equity no longer
\* the one the day started with, and the baseline still that one
C27_Witness ==
    /\ RiskChecked
    /\ cycles >= 2
    /\ daily_start_date = Today
    /\ equity_history # Unreadable
    /\ Len(equity_history) >= 2
    /\ daily_starting_value # LatestEquity
    /\ daily_starting_value \in
          {equity_history[i] : i \in 1..(Len(equity_history) - 1)}

\* the baseline of a later date than the construction's: the latest equity
\* at the check that found the stored date passed
C27_NewDayWitness ==
    /\ RiskChecked
    /\ cycles >= 2
    /\ daily_start_date = Today
    /\ Today >= 1
    /\ clock >= 27
    /\ daily_starting_value = LatestEquity

\* the types of the actions run_once reports for a sell it made
SellActions == {"SELL", "PARTIAL_SELL", "ROTATION_SELL"}

\* no order under the exchange's minimums was submitted
NoSmallOrder ==
    \A i \in 1..Len(events) :
        /\ events[i].type = "SELL_ORDER" => events[i].amount >= MinOrderAmount
        /\ events[i].type = "BUY_ORDER" => events[i].amount >= MIN_ORDER_USDT

\* run_once reports as many sells of a symbol as sell orders of the symbol
\* went through in the cycle, the rejected ones not among them
NoActionForDust ==
    pc \in {"idle", "positions", "rotation", "entry"} =>
        \A s \in Symbols :
            Cardinality({i \in 1..Len(actions) :
                            actions[i].symbol = s /\ actions[i].type \in SellActions})
              = Cardinality({i \in EventsOf("LOG_SELL") \cup EventsOf("LOG_SELL_PARTIAL") :
                                events[i].symbol = s})

\* the step under consideration is a call of execute_sell or execute_buy on
\* its own and leaves the account and the lifecycle records as they were
NothingRecorded ==
    /\ record_vars' = record_vars
    /\ exchange_vars' = exchange_vars
    /\ failures' = failures

\* a call of execute_sell with a quantity under the minimum logs
\* DUST_POSITION and nothing else, returns the dust marker and records
\* nothing; a call of execute_buy with an amount under the minimum cost logs
\* nothing, returns None and records nothing
C28_Step ==
    (pc = "execute" /\ cycles' = cycles + 1) =>
        /\ (actions'[1].type = "execute_sell" /\ actions'[1].amount < MinOrderAmount)
             => /\ events' = <<Event("LOG_DUST_POSITION", actions'[1].symbol,
                                     actions'[1].amount)>>
                /\ actions'[2].type = "dust"
                /\ NothingRecorded
        /\ (actions'[1].type = "execute_buy" /\ actions'[1].amount < MIN_ORDER_USDT)
             => /\ events' = <<>>
                /\ actions'[2].type = None
                /\ NothingRecorded

\* C28: a sell whose quantity is under the exchange minimum is rejected
\* without submitting an order: execute_sell logs DUST_POSITION, returns a
\* dust marker and changes no lifecycle record, and run_once reports no sell
\* action for it; a buy under the minimum cost submits no order and records
\* no position state.
C28_BelowMinimumRejected ==
    /\ [](NoSmallOrder /\ NoActionForDust)
    /\ [][C28_Step]_vars

\* execute_sell has just rejected a dust quantity of a position that
\* execute_buy had opened, the records of the position in place
C28_Witness ==
    /\ pc = "execute"
    /\ actions # <<>>
    /\ actions[1].type = "execute_sell"
    /\ actions[1].amount < MinOrderAmount
    /\ actions[2].type = "dust"
    /\ actions[1].symbol \in DOMAIN position_entry_prices
    /\ balance[actions[1].symbol] >= MinOrderAmount

\* execute_buy has just turned down an amount under the minimum cost
C28_BuyWitness ==
    /\ pc = "execute"
    /\ actions # <<>>
    /\ actions[1].type = "execute_buy"
    /\ actions[1].amount < MIN_ORDER_USDT
    /\ actions[2].type = None
    /\ events = <<>>
    /\ usdt >= MIN_ORDER_USDT

\* a cycle of run_once in which the positions loop asked for a sell that
\* execute_sell rejected as dust, with no sell reported
C28_RunOnceWitness ==
    /\ pc \in {"rotation", "entry"}
    /\ EventsOf("LOG_DUST_POSITION") # {}
    /\ \A i \in 1..Len(actions) : actions[i].type \notin SellActions

\* calculate_position_size has been called on its own
Sized == pc = "sized"

\* what the call was given and what it returned
SizedTotal == events[1].amount
SizedFree == usdt
SizeReturned == actions[1].amount

\* C29: for all inputs calculate_position_size returns either 0 or an
\* amount that is at least MIN_TRADE_USDT, at most MAX_SINGLE_POSITION_PCT of
\* the total equity and at most 0.95 of the free capital; it never returns a
\* positive amount under MIN_TRADE_USDT.
C29_SizeBounds ==
    Sized =>
        \/ SizeReturned = 0
        \/ /\ SizeReturned >= MIN_TRADE_USDT
           /\ SizeReturned * 100 <= MAX_SINGLE_POSITION_PCT * SizedTotal
           /\ SizeReturned * 100 <= 95 * SizedFree

\* a size the free capital caps: 0.95 of it, at the minimum trade exactly
C29_Witness ==
    /\ Sized
    /\ SizeReturned = MIN_TRADE_USDT
    /\ SizeReturned = (95 * SizedFree) \div 100
    /\ SizeReturned * 100 < MAX_SINGLE_POSITION_PCT * SizedTotal

\* a size at the cap of MAX_SINGLE_POSITION_PCT of the total equity
C29_CapWitness ==
    /\ Sized
    /\ SizeReturned > 0
    /\ SizeReturned * 100 = MAX_SINGLE_POSITION_PCT * SizedTotal

\* free capital and equity allow the minimum trade and the signal asks for
\* less: the size is 0
C29_FloorWitness ==
    /\ Sized
    /\ SizeReturned = 0
    /\ 95 * SizedFree >= 100 * MIN_TRADE_USDT
    /\ MAX_SINGLE_POSITION_PCT * SizedTotal >= 100 * MIN_TRADE_USDT

\* step 6 of run_once is about to look for entries (lines 1229-1233 let it)
EntriesEvaluated ==
    /\ pc = "entry"
    /\ ~AtPositionLimit(PositionValue(Remaining(positions, sold_symbols)),
                        AccountEquity)
    /\ usdt >= MIN_TRADE_USDT

\* the symbols run_once hands to should_buy (lines 1240-1245)
EntryCandidates ==
    Range(Unheld(market_data,
                 {p.currency : p \in Range(Remaining(positions, sold_symbols))}))

\* what should_buy returns for a candidate, called as line 1245 calls it
EntryVerdict(s) ==
    should_buy(market_data[s], Remaining(positions, sold_symbols), market_regime,
               price_history)

\* the positions open on the exchange as the entries are evaluated
OpenPositions == get_all_positions(balance, avg_price, ticker)

\* the stored price series of the candidate and of another open position
\* correlate beyond MAX_CORRELATION
CorrelatedWithOpen(s) ==
    \E o \in Range(OpenPositions) :
        /\ o.symbol # s
        /\ s \in DOMAIN price_history
        /\ o.symbol \in DOMAIN price_history
        /\ Correlation(price_history[s], price_history[o.symbol]) > MAX_CORRELATION

CitesCorrelation(verdict) ==
    ~verdict.ok /\ verdict.reason = "Too correlated with existing positions"

\* C30: should_buy never accepts a candidate whose price-series correlation
\* with any currently open position exceeds MAX_CORRELATION: such a
\* candidate is rejected with a reason citing correlation, in every cycle
\* and for every set of open positions.
C30_CorrelatedRejected ==
    EntriesEvaluated =>
        \A s \in EntryCandidates :
            CorrelatedWithOpen(s) => CitesCorrelation(EntryVerdict(s))

\* C30, its first statement alone: should_buy never accepts a candidate
\* whose price series correlates beyond MAX_CORRELATION with a currently
\* open position.
C30_CorrelatedNotAccepted ==
    EntriesEvaluated =>
        \A s \in EntryCandidates : CorrelatedWithOpen(s) => ~EntryVerdict(s).ok

\* the candidate correlates beyond MAX_CORRELATION with a position of the
\* list run_once hands to should_buy: the positions read at step 4, less
\* the ones sold since
CorrelatedWithListed(s) ==
    \E o \in Range(Remaining(positions, sold_symbols)) :
        /\ s \in DOMAIN price_history
        /\ o.symbol \in DOMAIN price_history
        /\ Correlation(price_history[s], price_history[o.symbol]) > MAX_CORRELATION

\* the conditions should_buy checks before the correlation (lines 760-780)
EarlierReasons ==
    {"Score too low", "Bear market", "Double downtrend", "RSI overbought",
     "Negative momentum", "Weak trend (low ADX)"}

\* what the code does: a candidate that correlates with a position of the
\* list it is given is rejected, for the correlation or for an earlier
\* condition
C30_ListedCorrelatedRejected ==
    EntriesEvaluated =>
        \A s \in EntryCandidates :
            CorrelatedWithListed(s) =>
                \/ CitesCorrelation(EntryVerdict(s))
                \/ ~EntryVerdict(s).ok /\ EntryVerdict(s).reason \in EarlierReasons

\* the filter at work: a candidate that passes every earlier condition of
\* should_buy is rejected for its correlation with a position of the list
C30_FilterWitness ==
    /\ EntriesEvaluated
    /\ \E s \in EntryCandidates :
          /\ CitesCorrelation(EntryVerdict(s))
          /\ CorrelatedWithListed(s)

\* the symbols of the positions the current cycle opened, by the kind of buy
OpenedBy(type) ==
    {actions[i].symbol : i \in {j \in 1..Len(actions) : actions[j].type = type}}

\* the cycle has made its rotation, or has ended
BuysMade == pc \in {"entry", "idle"} /\ cycles >= 1

\* C31: every position opened in a cycle, by a regular entry or by a
\* rotation buy, is for a symbol for which should_buy returned true in that
\* cycle.
C31_OpenedPassShouldBuy ==
    BuysMade =>
        \A s \in OpenedBy("BUY") \cup OpenedBy("ROTATION_BUY") : EntryVerdict(s).ok

\* the same for the regular entries alone
C31_EntriesPassShouldBuy ==
    BuysMade => \A s \in OpenedBy("BUY") : EntryVerdict(s).ok

\* a regular entry opened a position
C31_EntryWitness == BuysMade /\ OpenedBy("BUY") # {}

\* the three functions of RiskManager have been applied to equity_history
\* at the time of clock
Assessed == pc = "assessed"

RiskLevel == events[1].symbol
RiskMultiplier == events[1].amount
StopTrading == events[2].amount = 1

\* the drawdown of the history from its peak and the change against the
\* snapshot of a day ago, as fractions <<numerator, denominator>>; <<0, 1>>
\* where the functions return 0.0
Drawdown ==
    IF Len(equity_history) < 2 THEN <<0, 1>>
    ELSE LET peak == SeqMax(TotalValues(equity_history))
         IN  IF peak > 0
             THEN <<peak - equity_history[Len(equity_history)].total_value, peak>>
             ELSE <<0, 1>>

DailyPnl ==
    IF Len(equity_history) < 2 THEN <<0, 1>>
    ELSE LET old == {i \in 1..(Len(equity_history) - 1) :
                        equity_history[i].timestamp + 24 <= clock}
         IN  IF old = {} THEN <<0, 1>>
             ELSE LET k == CHOOSE i \in old : \A j \in old : j <= i
                      v == equity_history[k].total_value
                  IN  IF v > 0
                      THEN <<equity_history[Len(equity_history)].total_value - v, v>>
                      ELSE <<0, 1>>

\* drawdown > pct of MAX_DRAWDOWN; daily loss over pct of DAILY_LOSS_LIMIT
DrawdownAbove(pct) ==
    Drawdown[1] * 10000 * 100 > MAX_DRAWDOWN * pct * Drawdown[2]

DailyLossAbove(pct) ==
    DailyPnl[1] * 10000 * 100 < -(DAILY_LOSS_LIMIT * pct * DailyPnl[2])

C32_StopWitness ==
    /\ Assessed
    /\ StopTrading
    /\ ~DrawdownAbove(50)
    /\ RiskLevel = "DEFENSIVE"

\* CAUTIOUS on the daily loss alone
C32_CautiousWitness ==
    /\ Assessed
    /\ RiskLevel = "CAUTIOUS"
    /\ ~DrawdownAbove(50)
    /\ RiskMultiplier = 5

\* the levels of the ladder in the triggered set of a symbol
Triggered(partial_sells, s) ==
    IF s \in DOMAIN partial_sells THEN partial_sells[s] ELSE {}

\* the step under consideration is an iteration of the positions loop in
\* which should_sell decided the partial sell of level l of symbol s and
\* execute_sell rejected it as dust or the exchange failed it
PartialSellNotExecuted(s, l) ==
    /\ pc = "positions"
    /\ \E i, j \in 1..Len(NewEvents) :
          /\ i < j
          /\ NewEvents[i] = Event("PARTIAL_PROFIT", s, l)
          /\ NewEvents[j].symbol = s
          /\ NewEvents[j].type \in {"LOG_DUST_POSITION", "LOG_SELL_FAILED"}

C33_MarkedWhenDecided ==
    [][\A s \in Symbols, l \in Levels :
          (pc = "positions" /\ \E i \in 1..Len(NewEvents) :
                                  NewEvents[i] = Event("PARTIAL_PROFIT", s, l))
              => l \in Triggered(position_partial_sells', s)]_vars

\* the triggered set of s holds no level while a lower level is missing
LowerLevelsFirst(partial_sells, s) ==
    \A l \in Triggered(partial_sells, s), lower \in Levels :
        lower < l => lower \in Triggered(partial_sells, s)

\* C34: ladder levels trigger in ascending order of threshold and at most
\* one level per should_sell evaluation: a level is never marked triggered
\* while a lower level is still untriggered, even when the P&L jumps above
\* several levels at once.
C34_AscendingLadder ==
    /\ [](\A s \in Symbols : LowerLevelsFirst(position_partial_sells, s))
    /\ [][\A s \in Symbols :
             Cardinality(Triggered(position_partial_sells', s)
                             \ Triggered(position_partial_sells, s)) <= 1]_vars

\* an evaluation at a P&L above all three levels has just marked the lowest
\* level only
C34_Witness ==
    /\ Evaluated
    /\ positions[1].pnl_percent >= 800
    /\ events # <<>>
    /\ events[Len(events)].type = "PARTIAL_PROFIT"
    /\ Triggered(position_partial_sells, "BTC/USDT") = {300}

\* two evaluations above all levels in a row have marked the two lowest levels
C34_SecondWitness ==
    /\ Evaluated
    /\ positions[1].pnl_percent >= 800
    /\ events # <<>>
    /\ events[Len(events)].type = "PARTIAL_PROFIT"
    /\ Triggered(position_partial_sells, "BTC/USDT") = {300, 500}

\* the step under consideration submitted an order of the given type that
\* the exchange did not fill: the account is as it was
OrderNotFilled(order) ==
    /\ \E i \in 1..Len(NewEvents) : NewEvents[i].type = order
    /\ balance' = balance
    /\ usdt' = usdt

\* the step logged the failure of an order for s and no order for s of the
\* same side that went through
FailedOnly(s, failed, done) ==
    /\ \E i \in 1..Len(NewEvents) :
          NewEvents[i].type = failed /\ NewEvents[i].symbol = s
    /\ \A i \in 1..Len(NewEvents) :
          NewEvents[i].symbol = s => NewEvents[i].type \notin done

\* the five lifecycle records, as functions of the symbol
Records(entry_prices, high_prices, atr, entry_times, partial_sells) ==
    <<entry_prices, high_prices, atr, entry_times, partial_sells>>

\* a call of execute_sell or execute_buy on its own whose order the exchange
\* failed leaves every lifecycle record as it was, logs the failure last and
\* returns None; in a step of run_once a failed buy of s leaves the entry
\* price, ATR, entry time and triggered set of s as they were, and a failed
\* sell of s removes no record of s
C35_Step ==
    LET before == Records(position_entry_prices, position_high_prices,
                          position_atr, position_entry_times,
                          position_partial_sells)
        after == Records(position_entry_prices', position_high_prices',
                         position_atr', position_entry_times',
                         position_partial_sells')
    IN  /\ (pc = "execute" /\ cycles' = cycles + 1) =>
            /\ OrderNotFilled("SELL_ORDER") =>
                  /\ after = before
                  /\ events'[Len(events')].type = "LOG_SELL_FAILED"
                  /\ actions'[2].type = None
            /\ OrderNotFilled("BUY_ORDER") =>
                  /\ after = before
                  /\ events'[Len(events')].type = "LOG_BUY_FAILED"
                  /\ actions'[2].type = None
            /\ failures' # failures => OrderNotFilled("SELL_ORDER")
                                           \/ OrderNotFilled("BUY_ORDER")
        /\ pc # "execute" =>
            \A s \in Symbols :
               /\ FailedOnly(s, "LOG_BUY_FAILED", {"LOG_BUY"}) =>
                     \A k \in {1, 3, 4, 5} :
                         /\ s \in DOMAIN after[k] <=> s \in DOMAIN before[k]
                         /\ s \in DOMAIN before[k] => after[k][s] = before[k][s]
               /\ FailedOnly(s, "LOG_SELL_FAILED", {"LOG_SELL", "LOG_SELL_PARTIAL"}) =>
                     \A k \in 1..5 :
                         s \in DOMAIN before[k] => s \in DOMAIN after[k]

\* C35: when the exchange fails an order, the lifecycle state is unchanged:
\* a failed execute_buy records no entry price, high-water mark, ATR, entry
\* time or triggered set, a failed execute_sell removes none of them, and
\* the failure is logged as BUY_FAILED or SELL_FAILED with None returned.
C35_FailureChangesNothing == [][C35_Step]_vars

\* execute_sell has just failed at the exchange for a position that
\* execute_buy had opened, whose records are in place
C35_Witness ==
    /\ pc = "execute"
    /\ actions # <<>>
    /\ actions[1].type = "execute_sell"
    /\ actions[2].type = None
    /\ events[Len(events)].type = "LOG_SELL_FAILED"
    /\ failures >= 1
    /\ balance[actions[1].symbol] >= actions[1].amount
    /\ \A k \in 1..5 :
          actions[1].symbol \in DOMAIN Records(position_entry_prices,
                                               position_high_prices, position_atr,
                                               position_entry_times,
                                               position_partial_sells)[k]

\* execute_buy has just failed at the exchange for a symbol without records,
\* with the funds for the order at hand
C35_BuyWitness ==
    /\ pc = "execute"
    /\ actions # <<>>
    /\ actions[1].type = "execute_buy"
    /\ actions[2].type = None
    /\ events # <<>>
    /\ events[Len(events)].type = "LOG_BUY_FAILED"
    /\ failures >= 1
    /\ usdt >= actions[1].amount
    /\ actions[1].symbol \notin DOMAIN position_entry_prices
    /\ actions[1].symbol \notin DOMAIN position_partial_sells

\* a cycle of run_once in which a sell order failed at the exchange
C35_RunOnceWitness ==
    /\ pc \in {"positions", "rotation", "entry"}
    /\ EventsOf("LOG_SELL_FAILED") # {}

\* the total equity of the account at the prices of the current cycle; the
\* orders of a cycle fill at these prices and leave it as it was
CycleEquity == calculate_total_value_usdt(balance, usdt, ticker)

\* the quote amount of the i-th event is within the single-position cap
WithinSingleCap(i) ==
    events[i].amount * 100 <= MAX_SINGLE_POSITION_PCT * CycleEquity

\* C36: every buy order submitted by run_once, including a rotation buy, has
\* a quote amount of at most MAX_SINGLE_POSITION_PCT of the total equity.
C36_BuyWithinCap ==
    pc \in {"positions", "rotation", "entry", "idle"} =>
        \A i \in EventsOf("BUY_ORDER") : WithinSingleCap(i)

\* what the code does: the buy orders of the entry step, sized by
\* calculate_position_size, are within the cap
C36_EntryWithinCap ==
    pc \in {"positions", "rotation", "entry", "idle"} =>
        \A i \in EventsOf("BUY_ORDER") :
            (\E j \in EventsOf("ENTRY") : j < i) => WithinSingleCap(i)

\* the entry step has submitted a buy order
C36_EntryWitness ==
    /\ pc = "idle"
    /\ \E i \in EventsOf("BUY_ORDER") : \E j \in EventsOf("ENTRY") : j < i

\* in the current cycle the symbol was fully exited and a buy order of it
\* was filled afterwards
Rebought(s) ==
    \E i \in EventsOf("LOG_SELL"), j \in EventsOf("LOG_BUY") :
        /\ i < j
        /\ events[i].symbol = s
        /\ events[j].symbol = s

\* C37: an instrument that was fully exited in a cycle (by an exit signal or
\* by a rotation sell) is not bought again in the same cycle.
C37_NotRebought ==
    pc \in {"positions", "rotation", "entry", "idle"} =>
        \A s \in Symbols : ~Rebought(s)

\* run_once has reported an action of the type for s in the current cycle
Reported(type, s) ==
    \E i \in 1..Len(actions) : actions[i].type = type /\ actions[i].symbol = s

\* what the code does: the instrument a rotation sells is not the one the
\* rotation buys
C37_RotationBuysAnother ==
    pc \in {"positions", "rotation", "entry", "idle"} =>
        \A s \in Symbols : ~(Reported("ROTATION_SELL", s)
                                /\ Reported("ROTATION_BUY", s))

\* the entry step of a cycle never buys back what the rotation of the cycle
\* sold
C37_RotationNotUndone ==
    pc \in {"positions", "rotation", "entry", "idle"} =>
        \A s \in Symbols : ~(Reported("ROTATION_SELL", s) /\ Reported("BUY", s))

====
